---- MODULE Spec2Model ----
(***************************************************************************)
(* Model of the concurrent scan engine of BinanceScanner:                  *)
(*   src/src/scanner/scanner_thread.py  module-level cache and blacklist,  *)
(*                                      get_ohlcv_with_cache,              *)
(*                                      ScannerThread.run                  *)
(*   src/src/scanner/scanner_pool.py    ScannerPool.run / worker /         *)
(*                                      monitor / stop                     *)
(* Threads are interleaved at the points where the code reads or writes    *)
(* shared state or blocks (queue operations, the flag reads, the network   *)
(* fetch, the progress lock).                                              *)
(***************************************************************************)
EXTENDS Integers, Sequences, FiniteSets, TLC

(* ------------------------------ bounds -------------------------------- *)
\* longest symbol list handed to the constructor of a pool that is run again
MaxSymbols == 2
\* longest symbol list handed to the constructor of a pool that scans once
\* (at least two batches)
MaxPoolSymbols == 6
\* largest `threads` argument of the constructor
MaxThreads == 2
\* number of accepted run() calls that start threads
MaxRuns == 2
\* the clock stops advancing once it has reached this value
MaxNow == 300
\* longest series (rows left after dropna()) handed to the signal detector
MaxCandles == 6
\* length of the symbol list of a pool that pre-warms the cache
LongListLen == 101
\* largest multiprocessing.cpu_count(), and the longest symbol list of a
\* scan handler in units of SYMBOLS_PER_THREAD symbols
MaxCpus == 9
MaxFifties == 21
\* longest symbol list of a pool that starts with a blacklist, and the
\* number of symbols that may be on that blacklist
MaxBatchSymbols == 8
MaxBlacklisted == 3

(* ------------------------- program constants -------------------------- *)
\* scanner_pool.py: self.batch_size = 5
batch_size == 5
\* scanner_thread.py: CACHE_EXPIRY = 300
CACHE_EXPIRY == 300
\* scanner_thread.py: len(ohlcv) < 10
MIN_CANDLES == 10
\* scanner_thread.py: get_ohlcv_with_cache(..., limit=500)
SCAN_LIMIT == 500
\* scanner_thread.py: ScannerThread.__init__(..., candle_count=10)
DEFAULT_CANDLE_COUNT == 10
\* ui_components.py: candle_count_input.setRange(5, 50) and setValue(10)
INPUT_MIN == 5
INPUT_MAX == 50
INPUT_DEFAULT == 10
\* ui_handler.py: thread_count = min(20, max(8, len(symbols) // 50))
UI_MAX_THREADS == 20
UI_MIN_THREADS == 8
SYMBOLS_PER_THREAD == 50
\* scanner_pool.py: min(multiprocessing.cpu_count() * 2, 16)
THREADS_PER_CPU == 2
POOL_MAX_THREADS == 16
\* scanner_pool.py: if len(valid_symbols) > 100
PREHEAT_THRESHOLD == 100
\* scanner_pool.py: popular_symbols = valid_symbols[:20]
PREHEAT_COUNT == 20

\* the symbol names the constructor's list is taken from (distinct symbols)
SymbolNames == <<"A", "B", "C", "D", "E", "F", "G", "H", "I", "J", "K", "L">>
SymbolSet == { SymbolNames[i] : i \in 1..Len(SymbolNames) }
NoSymbol == ""
\* the timeframe the pool was constructed with
Timeframes == {"15m"}

(* The data source (exchange.fetch_ohlcv) is external.  A call ends in one *)
(* of: a series of at least / fewer than MIN_CANDLES candles, or an        *)
(* exception with a message.  A series is abstracted to its number of      *)
(* candles and to what the analysis of ScannerThread.run does with it.     *)
\*   "long"        : check_long_signal finds a signal, check_short_signal none
\*   "short"       : check_short_signal finds a signal, check_long_signal none
\*   "malformed"   : rows the analysis rejects with an exception
\*   "unsupported" : rows the analysis rejects with an exception whose
\*                   message contains "not supported"
Shapes == {"long", "short", "malformed", "unsupported"}
Series ==
    { [n |-> 500, shape |-> s] : s \in Shapes }
    \cup { [n |-> 3, shape |-> "long"], [n |-> 0, shape |-> "long"] }
NoData == [n |-> 0, shape |-> "none"]

\* Exception messages, as the sequence of fragments they are made of; the
\* `x in error_msg` substring test is membership of a fragment.
ErrorMessages ==
    { <<"binance", "Invalid symbol">>,
      <<"binance does not have market symbol", "symbol not found">>,
      <<"binance", "invalid symbol">>,
      <<"Network timeout">> }
\* str(e) of the exception the analysis of a rejected series raises
analysis_error(data) ==
    IF data.shape = "unsupported"
    THEN <<"'<=' ", "not supported", " between instances of 'str' and 'float'">>
    ELSE <<"6 columns passed, passed data had 5 columns">>

PERMANENT_PATTERNS ==
    { "does not have a testnet/sandbox URL", "symbol not found", "not supported",
      "Unknown symbol", "Invalid symbol" }

\* (variant: every exception of the data source counts as permanent)
always_permanent(error_msg) == TRUE

\* any(x in error_msg for x in [...])
IsPermanentMessage(error_msg) ==
    \E x \in PERMANENT_PATTERNS : \E i \in 1..Len(error_msg) : error_msg[i] = x

\* cache_key = f"{symbol}_{timeframe}_{limit}"
cache_key(symbol, timeframe, limit) ==
    symbol \o "_" \o timeframe \o "_" \o ToString(limit)

Min(a, b) == IF a <= b THEN a ELSE b

\* (variant: the filter of run() keeps every symbol)
all_symbols(symbols, invalid) == symbols

\* [s for s in self.symbols if not is_symbol_invalid(s)]
valid_symbols(symbols, invalid) == SelectSeq(symbols, LAMBDA s : s \notin invalid)

\* (variant: a last batch of fewer than batch_size symbols is dropped)
full_batches(valid) ==
    [i \in 1..(Len(valid) \div batch_size) |->
        SubSeq(valid, (i - 1) * batch_size + 1, i * batch_size)]

\* for i in range(0, len(valid), batch_size): batches.append(valid[i:i+batch_size])
RECURSIVE make_batches(_)
make_batches(valid) ==
    IF Len(valid) = 0 THEN << >>
    ELSE << SubSeq(valid, 1, Min(batch_size, Len(valid))) >>
         \o make_batches(SubSeq(valid, Min(batch_size, Len(valid)) + 1, Len(valid)))


(* --------------------------- signal detector -------------------------- *)
(* signal_detector.py.  A DataFrame is a sequence of rows; a row carries    *)
(* its timestamp (here: its position in the series), close, ma7, ma25 and   *)
(* ma99.  Python positions are 0-based: iloc(d, i) reads position i, and a  *)
(* negative i counts from the end.                                          *)

\* the rows a series is drawn from: ma7 below, on and above ma25, and close
\* below, on and above ma7
Rows ==
    { [close |-> m + c, ma7 |-> m, ma25 |-> 2, ma99 |-> 2] : m \in 1..3, c \in {-1, 0, 1} }

\* a series of rows, each stamped with its position; prices rise by one
\* from row to row, so that no two rows agree in any column
stamped(f) ==
    [k \in 1..Len(f) |-> [timestamp |-> k, close |-> f[k].close + k, ma7 |-> f[k].ma7 + k,
                          ma25 |-> f[k].ma25 + k, ma99 |-> f[k].ma99 + 2 * k]]

iloc(d, i) == IF i >= 0 THEN d[i + 1] ELSE d[Len(d) + i + 1]

\* df.tail(n).reset_index(drop=True)
tail(d, n) == SubSeq(d, Len(d) - n + 1, Len(d))

\* the detectors return None or a dict
None == [found |-> FALSE]
\* (variant: ma99 is taken from the crossover row)
signal_dict_stale(last, cross) ==
    [found |-> TRUE, timestamp |-> last.timestamp, close |-> last.close,
     ma7 |-> last.ma7, ma25 |-> last.ma25, ma99 |-> cross.ma99,
     cross_price |-> cross.close, cross_time |-> cross.timestamp]
signal_dict(last, cross) ==
    [found |-> TRUE, timestamp |-> last.timestamp, close |-> last.close,
     ma7 |-> last.ma7, ma25 |-> last.ma25, ma99 |-> last.ma99,
     cross_price |-> cross.close, cross_time |-> cross.timestamp]

\* (variant: only the two rows after the crossover are looked at)
two_after(cross_index) == (cross_index + 1)..(cross_index + 2)
\* range(cross_index + 1, cross_index + 4)
three_after(cross_index) == (cross_index + 1)..(cross_index + 3)

\* (variant: the crossover is reported at the row after it)
cross_row_late(d, cross_index) == iloc(d, cross_index + 1)
\* the row the crossover is reported at: recent_df.iloc[cross_index],
\* df.iloc[orig_cross_index]
cross_row(d, cross_index) == iloc(d, cross_index)

\* (variant: the row before the crossover may have ma7 on either side)
crossed_up_from_anywhere(prev, curr) == curr.ma7 > curr.ma25
\* (variant: the row before the crossover must have ma7 below ma25)
crossed_up_strictly(prev, curr) == prev.ma7 < prev.ma25 /\ curr.ma7 > curr.ma25
\* check_long_signal: prev_ma7 <= prev_ma25 and curr_ma7 > curr_ma25
crossed_up(prev, curr) == prev.ma7 <= prev.ma25 /\ curr.ma7 > curr.ma25

\* (variant: the loop has no break and ends with the last crossover)
last_long_cross_index(recent_df) ==
    LET found == { i \in 1..(Len(recent_df) - 1) :
                       crossed_up(iloc(recent_df, i - 1), iloc(recent_df, i)) }
    IN  IF found = {} THEN -1 ELSE CHOOSE i \in found : \A j \in found : i >= j

\* check_long_signal, the loop `for i in range(1, len(recent_df))` with its
\* break: the first position of the window with a crossover, -1 (cross_index
\* is None) if there is none
long_cross_index(recent_df) ==
    LET found == { i \in 1..(Len(recent_df) - 1) :
                       crossed_up(iloc(recent_df, i - 1), iloc(recent_df, i)) }
    IN  IF found = {} THEN -1 ELSE CHOOSE i \in found : \A j \in found : i <= j

\* (variant: a close on ma7 is accepted)
long_rejects_strictly(row) == row.close < row.ma7
\* check_long_signal: a confirmation row with close <= ma7 ends the check
long_rejects(row) == row.close <= row.ma7

\* (variant: a crossover with fewer than three rows after it in the window
\* is confirmed by the rows that are there)
check_long_in_window(d, count) ==
    IF Len(d) < count THEN None
    ELSE
    LET recent_df == tail(d, count)
        cross_index == long_cross_index(recent_df)
    IN  IF cross_index = -1 THEN None
        ELSE IF \E j \in three_after(cross_index) :
                    j < Len(recent_df) /\ long_rejects(iloc(recent_df, j))
             THEN None
             ELSE IF long_rejects(iloc(recent_df, -2)) THEN None
             ELSE signal_dict(iloc(d, -1), cross_row(recent_df, cross_index))

check_long_signal(d, count) ==
    IF Len(d) < count THEN None
    ELSE
    LET recent_df == tail(d, count)
        cross_index == long_cross_index(recent_df)
        orig_cross_index == Len(d) - count + cross_index
    IN  IF cross_index = -1 THEN None
        ELSE IF cross_index + 3 >= Len(recent_df)
        THEN \* fewer than three rows follow in the window: the whole series
             IF orig_cross_index + 3 >= Len(d) THEN None
             ELSE IF \E j \in three_after(orig_cross_index) : long_rejects(iloc(d, j))
                  THEN None
             ELSE IF long_rejects(iloc(d, -2)) THEN None
             ELSE signal_dict(iloc(d, -1), cross_row(d, orig_cross_index))
        ELSE IF \E j \in three_after(cross_index) :
                    j < Len(recent_df) /\ long_rejects(iloc(recent_df, j))
             THEN None
             ELSE IF long_rejects(iloc(recent_df, -2)) THEN None
             ELSE signal_dict(iloc(d, -1), cross_row(recent_df, cross_index))

\* (variant: the row before the crossover may have ma7 on either side)
crossed_down_from_anywhere(prev, curr) == curr.ma7 < curr.ma25
\* check_short_signal: prev_ma7 >= prev_ma25 and curr_ma7 < curr_ma25
crossed_down(prev, curr) == prev.ma7 >= prev.ma25 /\ curr.ma7 < curr.ma25

\* check_short_signal, the loop `for i in range(1, len(recent_df))` with its
\* break: the first position of the window with a crossover, -1 (cross_index
\* is None) if there is none
short_cross_index(recent_df) ==
    LET found == { i \in 1..(Len(recent_df) - 1) :
                       crossed_down(iloc(recent_df, i - 1), iloc(recent_df, i)) }
    IN  IF found = {} THEN -1 ELSE CHOOSE i \in found : \A j \in found : i <= j

\* (variant: a close on ma7 is accepted)
short_rejects_strictly(row) == row.close > row.ma7
\* check_short_signal: a confirmation row with close >= ma7 ends the check
short_rejects(row) == row.close >= row.ma7

\* (variant: a crossover with fewer than three rows after it in the window
\* is confirmed by the rows that are there)
check_short_in_window(d, count) ==
    IF Len(d) < count THEN None
    ELSE
    LET recent_df == tail(d, count)
        cross_index == short_cross_index(recent_df)
    IN  IF cross_index = -1 THEN None
        ELSE IF \E j \in three_after(cross_index) :
                    j < Len(recent_df) /\ short_rejects(iloc(recent_df, j))
             THEN None
             ELSE IF short_rejects(iloc(recent_df, -2)) THEN None
             ELSE signal_dict(iloc(d, -1), cross_row(recent_df, cross_index))

check_short_signal(d, count) ==
    IF Len(d) < count THEN None
    ELSE
    LET recent_df == tail(d, count)
        cross_index == short_cross_index(recent_df)
        orig_cross_index == Len(d) - count + cross_index
    IN  IF cross_index = -1 THEN None
        ELSE IF cross_index + 3 >= Len(recent_df)
        THEN \* fewer than three rows follow in the window: the whole series
             IF orig_cross_index + 3 >= Len(d) THEN None
             ELSE IF \E j \in three_after(orig_cross_index) : short_rejects(iloc(d, j))
                  THEN None
             ELSE IF short_rejects(iloc(d, -2)) THEN None
             ELSE signal_dict(iloc(d, -1), cross_row(d, orig_cross_index))
        ELSE IF \E j \in three_after(cross_index) :
                    j < Len(recent_df) /\ short_rejects(iloc(recent_df, j))
             THEN None
             ELSE IF short_rejects(iloc(recent_df, -2)) THEN None
             ELSE signal_dict(iloc(d, -1), cross_row(recent_df, cross_index))

(* ------------------------------ state --------------------------------- *)
VARIABLES
    \* scanner_thread.py module globals and the wall clock (time.time())
    OHLCV_CACHE, INVALID_SYMBOLS, now,
    \* the data source: the answers exchange.fetch_ohlcv can give for a symbol
    source,
    \* ScannerPool constructor arguments, and the value of the candle count
    \* input of the window whose handler constructed the pool
    symbols, threads, is_long, timeframe, candle_count_input,
    \* ScannerPool attributes
    running, should_stop, total_symbols, processed_symbols,
    \* self.queue is queue[run_no] and self.executor is executor[run_no]:
    \* each run() that starts threads rebinds both to fresh objects
    run_no, queue, executor,
    \* the threads: workers, one monitor per run, the caller inside stop()
    wk, mon, stop_pc,
    \* what the last step did: the pool signal it emitted and the value
    \* get_ohlcv_with_cache returned in it
    ev, ret,
    \* the ProgressUpdated / Completed events since the last accepted run(),
    \* in emission order, and the runs on which stop() was called
    log, stopped,
    \* the signal detector: the DataFrame and candle_count it is called with,
    \* and what check_long_signal / check_short_signal returned
    df, candle_count, signal_data,
    \* the symbols exchange.fetch_ohlcv was called for since the last
    \* accepted run()
    calls

globals == <<OHLCV_CACHE, INVALID_SYMBOLS>>
ctor == <<source, symbols, threads, is_long, timeframe, candle_count_input>>
pool == <<running, should_stop, total_symbols, processed_symbols>>
objs == <<run_no, queue, executor>>
observers == <<ev, ret>>
detector == <<df, candle_count, signal_data>>
vars == <<OHLCV_CACHE, INVALID_SYMBOLS, now, source, symbols, threads, is_long, timeframe,
          candle_count_input,
          running, should_stop, total_symbols, processed_symbols,
          run_no, queue, executor, wk, mon, stop_pc, ev, ret, log, stopped,
          df, candle_count, signal_data, calls>>

Runs == 1..MaxRuns
Workers == Runs \X (1..MaxThreads)

NoEvent == [type |-> "none", symbol |-> NoSymbol, processed |-> 0, total |-> 0]
ProgressUpdated(p, t) == [type |-> "progress", symbol |-> NoSymbol, processed |-> p, total |-> t]
SignalFound(s) == [type |-> "signal", symbol |-> s, processed |-> 0, total |-> 0]
Completed == [type |-> "completed", symbol |-> NoSymbol, processed |-> 0, total |-> 0]
ScanError == [type |-> "error", symbol |-> NoSymbol, processed |-> 0, total |-> 0]

\* `error` is str(e) of the exception the data source raised in the call,
\* `count` the integer clear_ohlcv_cache / clear_invalid_symbols returned
NoReturn == [by |-> <<0, 0>>, symbol |-> NoSymbol, how |-> "none", data |-> NoData,
             error |-> << >>, count |-> 0]
Return(w, s, how, data) == [by |-> w, symbol |-> s, how |-> how, data |-> data,
                            error |-> << >>, count |-> 0]
\* `return cache_size` / `return invalid_size` of the operation `op`
Cleared(op, size) == [NoReturn EXCEPT !.how = op, !.count = size]

\* a thread that was never started
NoWorker == [pc |-> "none", batch |-> << >>, idx |-> 0, current_time |-> 0,
             cache_to_use |-> "global"]
\* a worker thread between two batches, or one that has returned
at(pc) == [NoWorker EXCEPT !.pc = pc]
NoMonitor == [pc |-> "none", q |-> 0]
\* queue.Queue(): the deque and the unfinished_tasks counter
EmptyQueue == [items |-> << >>, unfinished_tasks |-> 0]

\* the ThreadPoolExecutor of a run: whether it was created or shut down, and
\* the calls submitted to it in submission order.  A call is queued, inside
\* exchange.fetch_ohlcv ("fetch") or done.
NoExecutor == [state |-> "none", tasks |-> << >>]
Task(symbol) == [symbol |-> symbol, pc |-> "queued", current_time |-> 0]

\* no call of exchange.fetch_ohlcv yet
NoCalls == {}
called(c, symbol) == c \cup {symbol}

\* OHLCV_CACHE = {}
EmptyCache == [k \in {} |-> NoData]

\* a data source that may answer every call in every way
AnySource == [s \in SymbolSet |-> [rows |-> Series, errors |-> ErrorMessages]]

\* a data source that answers all calls for a symbol alike: "A" is unknown to
\* the exchange, "B" and "F" carry a long crossover, "C" times out, "D" has
\* too few candles, "E" has rows the analysis rejects, the rest a short one
rows_of(s) ==
    CASE s \in {"B", "F"} -> {[n |-> 500, shape |-> "long"]}
      [] s = "D" -> {[n |-> 3, shape |-> "long"]}
      [] s = "E" -> {[n |-> 500, shape |-> "malformed"]}
      [] OTHER -> {[n |-> 500, shape |-> "short"]}
errors_of(s) ==
    CASE s = "A" -> {<<"binance", "Invalid symbol">>}
      [] s = "C" -> {<<"Network timeout">>}
      [] OTHER -> {}
fixed_source(names) ==
    [s \in names |->
        [rows |-> IF errors_of(s) = {} THEN rows_of(s) ELSE {}, errors |-> errors_of(s)]]
FixedSource == fixed_source(SymbolSet)

\* a list of LongListLen distinct symbols that starts with SymbolNames
LongList ==
    [i \in 1..LongListLen |->
        IF i <= Len(SymbolNames) THEN SymbolNames[i] ELSE "S" \o ToString(i)]

\* ScannerPool.__init__, with empty module-level cache and blacklist
PoolObject(lists, maxthreads) ==
    /\ symbols \in lists
    /\ threads \in 1..maxthreads
    /\ timeframe \in Timeframes
    /\ candle_count_input = INPUT_DEFAULT
    /\ running = FALSE
    /\ should_stop = FALSE
    /\ total_symbols = Len(symbols)
    /\ processed_symbols = 0
    /\ run_no = 0
    /\ queue = [r \in Runs |-> EmptyQueue]
    /\ executor = [r \in Runs |-> NoExecutor]
    /\ calls = NoCalls
    /\ wk = [w \in Workers |-> NoWorker]
    /\ mon = [r \in Runs |-> NoMonitor]
    /\ stop_pc = "idle"
    /\ ev = NoEvent
    /\ ret = NoReturn
    /\ log = << >>
    /\ stopped = {}

\* a pool constructed in a process whose cache and blacklist are empty
InitPoolObject(lists, maxthreads) ==
    /\ OHLCV_CACHE = EmptyCache
    /\ INVALID_SYMBOLS = {}
    /\ now = 0
    /\ PoolObject(lists, maxthreads)

\* what signal_data holds before and after the detectors have run
Unchecked == [checked |-> FALSE]
Checked(long, short) == [checked |-> TRUE, long |-> long, short |-> short]

\* a pool whose scanners have analysed nothing: ScannerPool.worker leaves
\* candle_count to its default
NoDetector ==
    /\ df = << >>
    /\ candle_count = DEFAULT_CANDLE_COUNT
    /\ signal_data = Unchecked

\* lists of distinct symbols
DistinctLists(maxlen) == { SubSeq(SymbolNames, 1, n) : n \in 0..maxlen }

\* short lists over two symbols, a symbol may occur twice; the first symbol
\* is "A" (the lists that start with "B" are the same up to the names)
ShortLists ==
    { l \in UNION { [1..n -> {"A", "B"}] : n \in 0..MaxSymbols } :
        Len(l) > 0 => l[1] = "A" }

Init ==
    /\ NoDetector
    /\ InitPoolObject(DistinctLists(MaxSymbols), MaxThreads)
    /\ source = FixedSource
    /\ is_long = TRUE

InitScan ==
    /\ NoDetector
    /\ InitPoolObject(DistinctLists(MaxPoolSymbols), MaxThreads)
    /\ source = FixedSource
    /\ is_long = TRUE

InitFaults ==
    /\ NoDetector
    /\ InitPoolObject(DistinctLists(MaxSymbols), 1)
    /\ source = FixedSource
    /\ is_long = TRUE

\* one worker: no two batches exist, so a second worker would find the
\* queue empty
InitFetch ==
    /\ NoDetector
    /\ InitPoolObject(ShortLists, 1)
    /\ source = AnySource
    /\ is_long \in BOOLEAN

\* a pool constructed after earlier scans of the process have blacklisted
\* some of the first MaxBlacklisted symbols
InitBatches ==
    /\ NoDetector
    /\ OHLCV_CACHE = EmptyCache
    /\ INVALID_SYMBOLS \in SUBSET { SymbolNames[i] : i \in 1..MaxBlacklisted }
    /\ now = 0
    /\ PoolObject(DistinctLists(MaxBatchSymbols), 1)
    /\ source = FixedSource
    /\ is_long = TRUE

\* a pool over a list long enough for run() to pre-warm the cache
InitPreheat ==
    /\ NoDetector
    /\ InitPoolObject({LongList}, 1)
    /\ source = fixed_source({ LongList[i] : i \in 1..LongListLen })
    /\ is_long = TRUE

\* the detectors alone: an idle pool, and either any series of at most
\* MaxCandles rows with a window of MaxCandles rows or up to two fewer, or a
\* series of MaxCandles + 1 rows whose ma7 is never on ma25, with a window
\* of all its rows
InitDetect ==
    /\ InitPoolObject({<< >>}, 1)
    /\ source = FixedSource
    /\ is_long = TRUE
    /\ \/ /\ \E f \in [1..(MaxCandles + 1) -> { r \in Rows : r.ma7 # r.ma25 }] : df = stamped(f)
          /\ candle_count = MaxCandles + 1
       \/ /\ \E n \in 0..MaxCandles : \E f \in [1..n -> Rows] : df = stamped(f)
          /\ candle_count \in (MaxCandles - 2)..MaxCandles
    /\ signal_data = Unchecked

(* ------------------------------ run() --------------------------------- *)
\* queue.put(batch) for every batch, on a fresh queue
put_all(batches) == [items |-> batches, unfinished_tasks |-> Len(batches)]

\* (variant: run() resets the counter and the flag before it tests `running`)
RunResetsBeforeGuard ==
    /\ stop_pc = "idle"
    /\ running
    /\ should_stop' = FALSE
    /\ processed_symbols' = 0
    /\ ev' = NoEvent /\ ret' = NoReturn
    /\ UNCHANGED <<globals, now, ctor, detector, calls, running, total_symbols, objs, wk, mon, stop_pc,
                   log, stopped>>

\* run() on a pool that is already running: prints and returns
RunWhileRunning ==
    /\ stop_pc = "idle"
    /\ running
    /\ ev' = NoEvent /\ ret' = NoReturn
    /\ UNCHANGED <<globals, now, ctor, detector, calls, pool, objs, wk, mon, stop_pc, log, stopped>>

\* run() that finds no valid symbol: emits scan_completed and returns idle
RunNothingToScan ==
    /\ stop_pc = "idle"
    /\ ~running
    /\ Len(valid_symbols(symbols, INVALID_SYMBOLS)) = 0
    /\ should_stop' = FALSE
    /\ processed_symbols' = 0
    /\ total_symbols' = 0
    /\ running' = FALSE
    /\ ev' = Completed /\ ret' = NoReturn
    /\ log' = <<Completed>>
    /\ calls' = NoCalls
    /\ UNCHANGED <<globals, now, ctor, detector, objs, wk, mon, stop_pc, stopped>>

\* lines 100-111: with more than 100 valid symbols, executor.map submits one
\* get_ohlcv_with_cache call for each of the first 20 and does not wait
preheat(valid) ==
    IF Len(valid) > PREHEAT_THRESHOLD
    THEN [i \in 1..PREHEAT_COUNT |-> Task(valid[i])]
    ELSE << >>

\* run() with work: new queue and executor with the pre-warming calls,
\* `threads` workers and a monitor, which blocks in self.queue.join() on the
\* new queue
RunStart ==
    /\ stop_pc = "idle"
    /\ ~running
    /\ run_no < MaxRuns
    /\ LET valid == valid_symbols(symbols, INVALID_SYMBOLS)
           r == run_no + 1
       IN /\ Len(valid) > 0
          /\ running' = TRUE
          /\ should_stop' = FALSE
          /\ processed_symbols' = 0
          /\ total_symbols' = Len(valid)
          /\ run_no' = r
          /\ queue' = [queue EXCEPT ![r] = put_all(make_batches(valid))]
          /\ executor' = [executor EXCEPT ![r] = [state |-> "open", tasks |-> preheat(valid)]]
          /\ wk' = [w \in Workers |->
                      IF w[1] = r /\ w[2] <= threads
                      THEN at("loop")
                      ELSE wk[w]]
          /\ mon' = [mon EXCEPT ![r] = [pc |-> "join", q |-> r]]
    /\ ev' = NoEvent /\ ret' = NoReturn
    /\ log' = << >>
    /\ calls' = NoCalls
    /\ UNCHANGED <<globals, now, ctor, detector, stop_pc, stopped>>

Run == RunWhileRunning \/ RunNothingToScan \/ RunStart


(* ------------------------ queue.Queue operations ---------------------- *)
\* get(block=False): pops the head; on an empty queue raises queue.Empty
queue_get(q) == [q EXCEPT !.items = Tail(q.items)]
\* (variant: task_done() does not count the task as finished)
task_done_lost(q) == q
\* task_done(): raises ValueError when called more often than put()
task_done_raises(q) == q.unfinished_tasks - 1 < 0
task_done(q) == [q EXCEPT !.unfinished_tasks = q.unfinished_tasks - 1]

(* ---------------------- cache and blacklist --------------------------- *)
\* (variant: the blacklist is not consulted)
never_invalid(symbol) == FALSE

\* return symbol in INVALID_SYMBOLS
is_symbol_invalid(symbol) == symbol \in INVALID_SYMBOLS

\* (variant: marking rebinds the blacklist to a set of the one symbol)
mark_only(invalid, symbol) == {symbol}

\* INVALID_SYMBOLS.add(symbol)
mark_symbol_as_invalid(invalid, symbol) == invalid \cup {symbol}

\* (variant: an entry is still fresh at the age of CACHE_EXPIRY)
cache_fresh_inclusive(cache, key, current_time) ==
    /\ key \in DOMAIN cache
    /\ current_time - cache[key].cache_time <= CACHE_EXPIRY

\* cache_key in cache_to_use and current_time - cache_time < CACHE_EXPIRY
cache_fresh(cache, key, current_time) ==
    /\ key \in DOMAIN cache
    /\ current_time - cache[key].cache_time < CACHE_EXPIRY

\* (variant: a hit gives the entry the time of the hit)
cache_touched_by_hit(cache, key, current_time) ==
    [cache EXCEPT ![key].cache_time = current_time]

\* the cache after `return data` at line 96: nothing is written on a hit
cache_after_hit(cache, key, current_time) == cache

\* (variant: a refresh stores the rows and keeps the time of the entry)
cache_put_rows(cache, key, current_time, ohlcv) ==
    [k \in DOMAIN cache \cup {key} |->
        IF k = key
        THEN [cache_time |-> IF key \in DOMAIN cache THEN cache[key].cache_time
                             ELSE current_time,
              data |-> ohlcv]
        ELSE cache[k]]

\* cache_to_use[cache_key] = (current_time, ohlcv)
cache_put(cache, key, current_time, ohlcv) ==
    [k \in DOMAIN cache \cup {key} |->
        IF k = key THEN [cache_time |-> current_time, data |-> ohlcv] ELSE cache[k]]

\* not ohlcv or len(ohlcv) < 10
insufficient(ohlcv) == ohlcv.n = 0 \/ ohlcv.n < MIN_CANDLES

(* ---------------- ScannerThread.run, one symbol of a batch ------------ *)
\* the symbol a worker is at
cur(w) == wk[w].batch[wk[w].idx]

\* (variant: the loop over the batch ends after the symbol)
end_batch(r) ==
    [r EXCEPT !.pc = "prog", !.idx = 0, !.current_time = 0, !.cache_to_use = "global"]

\* end of the loop body: processed += 1, next symbol or end of the batch
next_symbol(r) ==
    IF r.idx = Len(r.batch)
    THEN [r EXCEPT !.pc = "prog", !.idx = 0, !.current_time = 0, !.cache_to_use = "global"]
    ELSE [r EXCEPT !.pc = "sym", !.idx = r.idx + 1, !.current_time = 0,
                   !.cache_to_use = "global"]

\* DataFrame, moving averages, check_long_signal / check_short_signal on the
\* rows: does the detector chosen by is_long return a signal
detects(data) ==
    \/ is_long /\ data.shape = "long"
    \/ ~is_long /\ data.shape = "short"

\* The analysis of the data get_ohlcv_with_cache returned (lines 191-231):
\* a signal is emitted, or nothing happens, or an exception is caught by
\* the per-symbol handler, which blacklists the symbol when the message
\* matches a permanent pattern.
Analyse(w, data) ==
    IF data.shape \in {"malformed", "unsupported"}
    THEN /\ ev' = NoEvent
         /\ INVALID_SYMBOLS' = IF IsPermanentMessage(analysis_error(data))
                               THEN mark_symbol_as_invalid(INVALID_SYMBOLS, cur(w))
                               ELSE INVALID_SYMBOLS
    ELSE /\ ev' = IF detects(data) THEN SignalFound(cur(w)) ELSE NoEvent
         /\ UNCHANGED INVALID_SYMBOLS

\* The loop body up to the data-source call: the blacklist check of lines
\* 175-179 and get_ohlcv_with_cache, lines 82-101 (fail fast on a
\* blacklisted symbol, return a fresh cache entry, else call the source).
\* Both blacklist checks read INVALID_SYMBOLS with nothing in between, and
\* both end the symbol without data, so they are one step.
GetCandlesBegin(w) ==
    /\ wk[w].pc = "sym"
    /\ LET key == cache_key(cur(w), timeframe, SCAN_LIMIT) IN
       IF is_symbol_invalid(cur(w))
       THEN /\ ret' = Return(w, cur(w), "blacklisted", NoData)
            /\ ev' = NoEvent
            /\ wk' = [wk EXCEPT ![w] = next_symbol(wk[w])]
            /\ UNCHANGED <<globals, calls>>
       ELSE IF cache_fresh(OHLCV_CACHE, key, now)
       THEN /\ ret' = Return(w, cur(w), "hit", OHLCV_CACHE[key].data)
            /\ wk' = [wk EXCEPT ![w] = next_symbol(wk[w])]
            /\ Analyse(w, OHLCV_CACHE[key].data)
            /\ OHLCV_CACHE' = cache_after_hit(OHLCV_CACHE, key, now)
            /\ UNCHANGED calls
       ELSE /\ ret' = NoReturn
            /\ ev' = NoEvent
            /\ wk' = [wk EXCEPT ![w] = [wk[w] EXCEPT !.pc = "fetch",
                                                     !.current_time = now,
                                                     !.cache_to_use = "global"]]
            /\ calls' = called(calls, cur(w))
            /\ UNCHANGED globals
    /\ UNCHANGED <<now, ctor, detector, pool, objs, mon, stop_pc, log, stopped>>

\* exchange.fetch_ohlcv returns rows (lines 101-110), then the analysis
FetchReturns(w) ==
    /\ wk[w].pc = "fetch"
    /\ \E ohlcv \in source[cur(w)].rows :
         LET key == cache_key(cur(w), timeframe, SCAN_LIMIT) IN
         IF insufficient(ohlcv)
         THEN /\ ret' = Return(w, cur(w), "insufficient", NoData)
              /\ ev' = NoEvent
              /\ UNCHANGED globals
         ELSE /\ ret' = Return(w, cur(w), "fetched", ohlcv)
              /\ OHLCV_CACHE' = IF wk[w].cache_to_use = "global"
                                THEN cache_put(OHLCV_CACHE, key, wk[w].current_time, ohlcv)
                                ELSE OHLCV_CACHE
              /\ Analyse(w, ohlcv)
    /\ wk' = [wk EXCEPT ![w] = next_symbol(wk[w])]
    /\ UNCHANGED <<now, ctor, detector, calls, pool, objs, mon, stop_pc, log, stopped>>

\* (variant: a failed refresh removes the entry of the key from the cache)
FetchRaisesAndEvicts(w) ==
    /\ wk[w].pc = "fetch"
    /\ \E error_msg \in source[cur(w)].errors :
         /\ INVALID_SYMBOLS' = IF IsPermanentMessage(error_msg)
                               THEN mark_symbol_as_invalid(INVALID_SYMBOLS, cur(w))
                               ELSE INVALID_SYMBOLS
         /\ ret' = [Return(w, cur(w), "error", NoData) EXCEPT !.error = error_msg]
    /\ OHLCV_CACHE' = [k \in DOMAIN OHLCV_CACHE \ {cache_key(cur(w), timeframe, SCAN_LIMIT)} |->
                          OHLCV_CACHE[k]]
    /\ ev' = NoEvent
    /\ wk' = [wk EXCEPT ![w] = next_symbol(wk[w])]
    /\ UNCHANGED <<now, ctor, detector, calls, pool, objs, mon, stop_pc, log, stopped>>

\* exchange.fetch_ohlcv raises (lines 112-126)
FetchRaises(w) ==
    /\ wk[w].pc = "fetch"
    /\ \E error_msg \in source[cur(w)].errors :
         /\ INVALID_SYMBOLS' = IF IsPermanentMessage(error_msg)
                               THEN mark_symbol_as_invalid(INVALID_SYMBOLS, cur(w))
                               ELSE INVALID_SYMBOLS
         /\ ret' = [Return(w, cur(w), "error", NoData) EXCEPT !.error = error_msg]
    /\ ev' = NoEvent
    /\ wk' = [wk EXCEPT ![w] = next_symbol(wk[w])]
    /\ UNCHANGED <<OHLCV_CACHE, now, ctor, detector, calls, pool, objs, mon, stop_pc, log, stopped>>


(* ------------------------- ScannerPool.worker ------------------------- *)
\* `while not self.should_stop` (line 130; also the break of lines 184-185,
\* which reads the same flag right before it)
WorkerLoop(w) ==
    /\ wk[w].pc = "loop"
    /\ wk' = [wk EXCEPT ![w] = at(IF should_stop THEN "done" ELSE "get")]
    /\ ev' = NoEvent /\ ret' = NoReturn
    /\ UNCHANGED <<globals, now, ctor, detector, calls, pool, objs, mon, stop_pc, log, stopped>>

\* self.queue.get(block=False) (lines 133-136): queue.Empty ends the worker
WorkerGet(w) ==
    /\ wk[w].pc = "get"
    /\ IF Len(queue[run_no].items) = 0
       THEN /\ wk' = [wk EXCEPT ![w] = at("done")]
            /\ UNCHANGED queue
       ELSE /\ wk' = [wk EXCEPT ![w] = [wk[w] EXCEPT !.pc = "chk",
                                                     !.batch = Head(queue[run_no].items),
                                                     !.idx = 1]]
            /\ queue' = [queue EXCEPT ![run_no] = queue_get(queue[run_no])]
    /\ ev' = NoEvent /\ ret' = NoReturn
    /\ UNCHANGED <<globals, now, ctor, detector, calls, pool, run_no, executor, mon, stop_pc, log, stopped>>

\* lines 139-141: a batch pulled while stopping is acknowledged and dropped;
\* otherwise ScannerThread(batch).run() starts.  A ValueError of task_done()
\* is caught by the handler of line 187, which sleeps and loops.
WorkerCheck(w) ==
    /\ wk[w].pc = "chk"
    /\ IF should_stop
       THEN IF task_done_raises(queue[run_no])
            THEN /\ wk' = [wk EXCEPT ![w] = at("loop")]
                 /\ UNCHANGED queue
            ELSE /\ wk' = [wk EXCEPT ![w] = at("done")]
                 /\ queue' = [queue EXCEPT ![run_no] = task_done(queue[run_no])]
       ELSE /\ wk' = [wk EXCEPT ![w].pc = "sym"]
            /\ UNCHANGED queue
    /\ ev' = NoEvent /\ ret' = NoReturn
    /\ UNCHANGED <<globals, now, ctor, detector, calls, pool, run_no, executor, mon, stop_pc, log, stopped>>

\* lines 164-166: under progress_lock, count the batch and emit the progress
WorkerProgress(w) ==
    /\ wk[w].pc = "prog"
    /\ processed_symbols' = processed_symbols + Len(wk[w].batch)
    /\ ev' = ProgressUpdated(processed_symbols', total_symbols)
    /\ log' = Append(log, ev')
    /\ wk' = [wk EXCEPT ![w].pc = "ack"]
    /\ ret' = NoReturn
    /\ UNCHANGED <<globals, now, ctor, detector, calls, running, should_stop, total_symbols, objs,
                   mon, stop_pc, stopped>>

\* line 181: self.queue.task_done(); a ValueError goes to the handler of
\* line 187 (sleep, then loop)
WorkerAck(w) ==
    /\ wk[w].pc \in {"ack", "hack"}
    /\ wk' = [wk EXCEPT ![w] = at("loop")]
    /\ queue' = IF task_done_raises(queue[run_no]) THEN queue
                ELSE [queue EXCEPT ![run_no] = task_done(queue[run_no])]
    /\ ev' = NoEvent /\ ret' = NoReturn
    /\ UNCHANGED <<globals, now, ctor, detector, calls, pool, run_no, executor, mon, stop_pc, log, stopped>>

Worker(w) ==
    \/ WorkerLoop(w) \/ WorkerGet(w) \/ WorkerCheck(w)
    \/ GetCandlesBegin(w) \/ FetchReturns(w) \/ FetchRaises(w)
    \/ WorkerProgress(w) \/ WorkerAck(w)

(* ------------------------- ScannerPool.monitor ------------------------ *)
\* (variant: scan_completed is emitted whether or not the pool is stopping)
MonitorJoinedEmits(r) ==
    /\ mon[r].pc = "join"
    /\ queue[mon[r].q].unfinished_tasks = 0
    /\ mon' = [mon EXCEPT ![r] = [pc |-> "fin", q |-> 0]]
    /\ ev' = Completed
    /\ log' = Append(log, Completed)
    /\ ret' = NoReturn
    /\ UNCHANGED <<globals, now, ctor, detector, calls, pool, objs, wk, stop_pc, stopped>>

\* lines 198-208: self.queue.join() returns once unfinished_tasks of the
\* queue the monitor was started on is 0; then scan_completed is emitted
\* unless the pool is stopping.  (No step of another thread between the
\* return of join() and the read of should_stop changes what is emitted:
\* a stop() there has the effect of a stop() just before.)
MonitorJoined(r) ==
    /\ mon[r].pc = "join"
    /\ queue[mon[r].q].unfinished_tasks = 0
    /\ mon' = [mon EXCEPT ![r] = [pc |-> "fin", q |-> 0]]
    /\ ev' = IF should_stop THEN NoEvent ELSE Completed
    /\ log' = IF should_stop THEN log ELSE Append(log, Completed)
    /\ ret' = NoReturn
    /\ UNCHANGED <<globals, now, ctor, detector, calls, pool, objs, wk, stop_pc, stopped>>

\* lines 211-214: self.executor.shutdown(wait=False); self.running = False
MonitorFinish(r) ==
    /\ mon[r].pc = "fin"
    /\ mon' = [mon EXCEPT ![r].pc = "done"]
    /\ executor' = [executor EXCEPT ![run_no].state = "shutdown"]
    /\ running' = FALSE
    /\ ev' = NoEvent /\ ret' = NoReturn
    /\ UNCHANGED <<globals, now, ctor, detector, calls, should_stop, total_symbols, processed_symbols,
                   run_no, queue, wk, stop_pc, log, stopped>>

Monitor(r) == MonitorJoined(r) \/ MonitorFinish(r)

(* -------------------------- ScannerPool.stop -------------------------- *)
\* lines 223-232: on a running pool set the flag, then join each worker for
\* at most 0.5 s (the joins change no state and always return)
StopBegin ==
    /\ stop_pc = "idle"
    /\ running
    /\ should_stop' = TRUE
    /\ stop_pc' = "drain"
    /\ stopped' = stopped \cup {run_no}
    /\ ev' = NoEvent /\ ret' = NoReturn
    /\ UNCHANGED <<globals, now, ctor, detector, calls, running, total_symbols, processed_symbols,
                   objs, wk, mon, log>>

\* stop() on an idle pool returns at once
StopWhileIdle ==
    /\ stop_pc = "idle"
    /\ ~running
    /\ ev' = NoEvent /\ ret' = NoReturn
    /\ UNCHANGED <<globals, now, ctor, detector, calls, pool, objs, wk, mon, stop_pc, log, stopped>>

\* lines 243-246, the end of stop(): self.executor.shutdown(wait=False);
\* self.running = False
stop_returns ==
    /\ stop_pc' = "idle"
    /\ executor' = [executor EXCEPT ![run_no].state = "shutdown"]
    /\ running' = FALSE

\* lines 236-237: while not self.queue.empty(): self.queue.get(block=False);
\* on an empty queue the loop ends (by the test, or by queue.Empty when a
\* worker took the last batch after the test) and stop() returns
StopDrain ==
    /\ stop_pc = "drain"
    /\ IF Len(queue[run_no].items) = 0
       THEN /\ stop_returns
            /\ UNCHANGED queue
       ELSE /\ stop_pc' = "ack"
            /\ queue' = [queue EXCEPT ![run_no] = queue_get(queue[run_no])]
            /\ UNCHANGED <<executor, running>>
    /\ ev' = NoEvent /\ ret' = NoReturn
    /\ UNCHANGED <<globals, now, ctor, detector, calls, should_stop, total_symbols, processed_symbols,
                   run_no, wk, mon, log, stopped>>

\* line 238: self.queue.task_done(); a ValueError is swallowed by the bare
\* except of line 239, which ends the drain, and stop() returns
StopAck ==
    /\ stop_pc = "ack"
    /\ IF task_done_raises(queue[run_no])
       THEN /\ stop_returns
            /\ UNCHANGED queue
       ELSE /\ stop_pc' = "drain"
            /\ queue' = [queue EXCEPT ![run_no] = task_done(queue[run_no])]
            /\ UNCHANGED <<executor, running>>
    /\ ev' = NoEvent /\ ret' = NoReturn
    /\ UNCHANGED <<globals, now, ctor, detector, calls, should_stop, total_symbols, processed_symbols,
                   run_no, wk, mon, log, stopped>>

Stop == StopBegin \/ StopWhileIdle \/ StopDrain \/ StopAck

(* --------------------- administrative operations ---------------------- *)
\* (variant: the size is read after the cache was rebound)
size_after_clearing(cache) == 0

\* cache_size = len(OHLCV_CACHE)
cache_size(cache) == Cardinality(DOMAIN cache)

\* invalid_size = len(INVALID_SYMBOLS)
invalid_size(invalid) == Cardinality(invalid)

\* (variant: clearing the cache rebinds the blacklist as well)
clear_everything ==
    /\ stop_pc = "idle"
    /\ OHLCV_CACHE' = EmptyCache
    /\ INVALID_SYMBOLS' = {}
    /\ wk' = [w \in Workers |->
                IF wk[w].pc = "fetch" THEN [wk[w] EXCEPT !.cache_to_use = "old"] ELSE wk[w]]
    /\ ev' = NoEvent
    /\ ret' = Cleared("clear_ohlcv_cache", cache_size(OHLCV_CACHE))
    /\ UNCHANGED <<now, ctor, detector, calls, pool, objs, mon, stop_pc, log, stopped>>

\* clear_ohlcv_cache(): rebinds OHLCV_CACHE to a new dict; a call that is
\* waiting for the data source keeps the old dict in cache_to_use
clear_ohlcv_cache ==
    /\ stop_pc = "idle"
    /\ OHLCV_CACHE' = EmptyCache
    /\ wk' = [w \in Workers |->
                IF wk[w].pc = "fetch" THEN [wk[w] EXCEPT !.cache_to_use = "old"] ELSE wk[w]]
    /\ ev' = NoEvent
    /\ ret' = Cleared("clear_ohlcv_cache", cache_size(OHLCV_CACHE))
    /\ UNCHANGED <<INVALID_SYMBOLS, now, ctor, detector, calls, pool, objs, mon, stop_pc, log, stopped>>

\* clear_invalid_symbols()
clear_invalid_symbols ==
    /\ stop_pc = "idle"
    /\ INVALID_SYMBOLS' = {}
    /\ ev' = NoEvent
    /\ ret' = Cleared("clear_invalid_symbols", invalid_size(INVALID_SYMBOLS))
    /\ UNCHANGED <<OHLCV_CACHE, now, ctor, detector, calls, pool, objs, wk, mon, stop_pc, log, stopped>>

\* time.time() advances
Tick ==
    /\ now < MaxNow
    /\ now' = now + CACHE_EXPIRY \div 2
    /\ ev' = NoEvent /\ ret' = NoReturn
    /\ UNCHANGED <<globals, ctor, detector, calls, pool, objs, wk, mon, stop_pc, log, stopped>>

(* ------------------------ cache pre-warming --------------------------- *)
\* preheat_cache(symbol), lines 105-107, on a thread of the executor: the
\* calls start in submission order, at most `threads` (max_workers) at a
\* time.  get_ohlcv_with_cache up to the data-source call, as in
\* GetCandlesBegin.
PreheatBegin(r) ==
    /\ \E k \in 1..Len(executor[r].tasks) :
         LET task == executor[r].tasks[k]
             key == cache_key(task.symbol, timeframe, SCAN_LIMIT)
             done == [task EXCEPT !.pc = "done"]
         IN /\ task.pc = "queued"
            /\ \A j \in 1..(k - 1) : executor[r].tasks[j].pc # "queued"
            /\ Cardinality({ j \in 1..Len(executor[r].tasks) :
                                executor[r].tasks[j].pc = "fetch" }) < threads
            /\ IF is_symbol_invalid(task.symbol)
               THEN /\ ret' = Return(<<r, 0>>, task.symbol, "blacklisted", NoData)
                    /\ executor' = [executor EXCEPT ![r].tasks[k] = done]
                    /\ UNCHANGED calls
               ELSE IF cache_fresh(OHLCV_CACHE, key, now)
               THEN /\ ret' = Return(<<r, 0>>, task.symbol, "hit", OHLCV_CACHE[key].data)
                    /\ executor' = [executor EXCEPT ![r].tasks[k] = done]
                    /\ UNCHANGED calls
               ELSE /\ ret' = NoReturn
                    /\ executor' = [executor EXCEPT ![r].tasks[k] =
                                       [task EXCEPT !.pc = "fetch", !.current_time = now]]
                    /\ calls' = called(calls, task.symbol)
    /\ ev' = NoEvent
    /\ UNCHANGED <<globals, now, ctor, detector, pool, run_no, queue, wk, mon, stop_pc,
                   log, stopped>>

\* exchange.fetch_ohlcv returns rows to a pre-warming call (lines 101-110)
PreheatReturns(r) ==
    /\ \E k \in 1..Len(executor[r].tasks) :
         LET task == executor[r].tasks[k]
             key == cache_key(task.symbol, timeframe, SCAN_LIMIT)
         IN /\ task.pc = "fetch"
            /\ \E ohlcv \in source[task.symbol].rows :
                 IF insufficient(ohlcv)
                 THEN /\ ret' = Return(<<r, 0>>, task.symbol, "insufficient", NoData)
                      /\ UNCHANGED OHLCV_CACHE
                 ELSE /\ ret' = Return(<<r, 0>>, task.symbol, "fetched", ohlcv)
                      /\ OHLCV_CACHE' = cache_put(OHLCV_CACHE, key, task.current_time, ohlcv)
            /\ executor' = [executor EXCEPT ![r].tasks[k] = [task EXCEPT !.pc = "done"]]
    /\ ev' = NoEvent
    /\ UNCHANGED <<INVALID_SYMBOLS, now, ctor, detector, calls, pool, run_no, queue, wk, mon,
                   stop_pc, log, stopped>>

\* exchange.fetch_ohlcv raises in a pre-warming call (lines 112-126)
PreheatRaises(r) ==
    /\ \E k \in 1..Len(executor[r].tasks) :
         LET task == executor[r].tasks[k]
         IN /\ task.pc = "fetch"
            /\ \E error_msg \in source[task.symbol].errors :
                 /\ INVALID_SYMBOLS' = IF IsPermanentMessage(error_msg)
                                       THEN mark_symbol_as_invalid(INVALID_SYMBOLS, task.symbol)
                                       ELSE INVALID_SYMBOLS
                 /\ ret' = [Return(<<r, 0>>, task.symbol, "error", NoData)
                              EXCEPT !.error = error_msg]
            /\ executor' = [executor EXCEPT ![r].tasks[k] = [task EXCEPT !.pc = "done"]]
    /\ ev' = NoEvent
    /\ UNCHANGED <<OHLCV_CACHE, now, ctor, detector, calls, pool, run_no, queue, wk, mon,
                   stop_pc, log, stopped>>

Preheat(r) == PreheatBegin(r) \/ PreheatReturns(r) \/ PreheatRaises(r)

(* ----------------------- analysis of one series ---------------------- *)
\* ScannerThread.run, lines 204-214, with check_both: both detectors are
\* applied to the DataFrame
Detect ==
    /\ signal_data = Unchecked
    /\ signal_data' = Checked(check_long_signal(df, candle_count),
                              check_short_signal(df, candle_count))
    /\ UNCHANGED <<globals, now, ctor, pool, objs, wk, mon, stop_pc, observers, log, stopped,
                   df, candle_count, calls>>

(* ------------------------------ faults -------------------------------- *)
\* An exception inside ScannerPool.monitor (in queue.join(), in the emit of
\* scan_completed, in executor.shutdown): the handler of lines 216-219
\* emits scan_error and the thread ends.  At "join" the exception comes
\* before scan_completed was emitted, at "fin" after it.
MonitorRaises(r) ==
    /\ mon[r].pc \in {"join", "fin"}
    /\ mon' = [mon EXCEPT ![r] = [pc |-> "done", q |-> 0]]
    /\ ev' = ScanError /\ ret' = NoReturn
    /\ log' = Append(log, ScanError)
    /\ UNCHANGED <<globals, now, ctor, detector, calls, pool, objs, wk, stop_pc, stopped>>

\* An exception in ScannerThread.run outside the per-symbol handler (an emit
\* of progress_updated, the handler itself): the handler of lines 240-244
\* emits error_occurred, which the worker connected to _on_error (line 158),
\* so the pool emits scan_error; run() returns and the rest of the batch is
\* not scanned.
ScanRaises(w) ==
    /\ wk[w].pc = "sym"
    /\ wk' = [wk EXCEPT ![w] = [wk[w] EXCEPT !.pc = "prog", !.idx = 0]]
    /\ ev' = ScanError /\ ret' = NoReturn
    /\ log' = Append(log, ScanError)
    /\ UNCHANGED <<globals, now, ctor, detector, calls, pool, objs, mon, stop_pc, stopped>>

\* The handler of lines 171-178: under progress_lock it counts the batch and
\* emits the progress, and the worker goes on to task_done() ("hack": the
\* batch was handled by the handler and is not yet acknowledged)
batch_handler(w) ==
    /\ processed_symbols' = processed_symbols + Len(wk[w].batch)
    /\ ev' = ProgressUpdated(processed_symbols', total_symbols)
    /\ log' = Append(log, ev')
    /\ wk' = [wk EXCEPT ![w] = [wk[w] EXCEPT !.pc = "hack", !.idx = 0]]
    /\ ret' = NoReturn
    /\ UNCHANGED <<globals, now, ctor, detector, calls, running, should_stop, total_symbols, objs,
                   mon, stop_pc, stopped>>

\* An exception in the try block of lines 145-169 before scanner.run()
\* (the construction of the ScannerThread, the connects)
BatchRaises(w) ==
    /\ wk[w].pc = "sym" /\ wk[w].idx = 1
    /\ batch_handler(w)

\* An exception in the same try block after the batch was counted (lines
\* 166-169: the emit, time.time(), the print)
BatchRaisesCounted(w) ==
    /\ wk[w].pc = "ack"
    /\ batch_handler(w)

Fault ==
    \/ \E r \in Runs : MonitorRaises(r)
    \/ \E w \in Workers : ScanRaises(w)
    \/ \E w \in Workers : BatchRaises(w)
    \/ \E w \in Workers : BatchRaisesCounted(w)

\* The pool object as its interface allows it to be used: run() and stop()
\* at any time, a stopped or finished pool run again.  No administrative
\* operation is issued and the scans finish within the TTL.
Next ==
    \/ Run
    \/ Stop
    \/ \E w \in Workers : Worker(w)
    \/ \E r \in Runs : Monitor(r)

\* The pool as ui_handler.py uses it: a fresh pool for every scan, so run()
\* is accepted by a pool that has started no thread yet
RunFresh == run_no = 0 /\ (RunNothingToScan \/ RunStart)

NextScan ==
    \/ RunWhileRunning \/ RunFresh
    \/ Stop
    \/ \E w \in Workers : Worker(w)
    \/ \E r \in Runs : Monitor(r)

\* scans that run to their end, the administrative operations and the clock
NextFetch ==
    \/ Run
    \/ \E w \in Workers : Worker(w)
    \/ \E r \in Runs : Monitor(r)
    \/ clear_ohlcv_cache
    \/ clear_invalid_symbols
    \/ Tick

\* the pool run again, with exceptions in the monitor and in the handling of
\* a batch
NextFaults == Next \/ Fault

\* one scan that runs to its end
NextBatches ==
    \/ RunWhileRunning \/ RunFresh
    \/ \E w \in Workers : Worker(w)
    \/ \E r \in Runs : Monitor(r)

\* one scan that pre-warms the cache and runs to its end
NextPreheat ==
    \/ RunWhileRunning
    \/ (run_no = 0 /\ RunStart)
    \/ \E w \in Workers : Worker(w)
    \/ \E r \in Runs : Monitor(r)
    \/ \E r \in Runs : Preheat(r)

\* short symbol lists, one answer of the data source per symbol, pool reused
Spec == Init /\ [][Next]_vars

\* symbol lists of several batches, one answer per symbol, one scan
SpecScan == InitScan /\ [][NextScan]_vars

\* short symbol lists, one worker, one answer per symbol, pool reused, faults
SpecFaults == InitFaults /\ [][NextFaults]_vars

\* short symbol lists, one worker, any answer of the data source
SpecFetch == InitFetch /\ [][NextFetch]_vars

\* symbol lists of up to two batches, some symbols blacklisted before the
\* scan, one worker, one scan
SpecBatches == InitBatches /\ [][NextBatches]_vars

\* a list of more than PREHEAT_THRESHOLD symbols, one worker, one scan
SpecPreheat == InitPreheat /\ [][NextPreheat]_vars

\* the signal detectors applied to every bounded series
NextDetect == Detect
SpecDetect == InitDetect /\ [][NextDetect]_vars


(* ============================ properties ============================== *)
\* indices of the ProgressUpdated / Completed events since the last run()
progress_events == { i \in 1..Len(log) : log[i].type = "progress" }
completed_events == { i \in 1..Len(log) : log[i].type = "completed" }
\* worker threads that are inside ScannerThread(batch).run() or about to
\* count the batch
processing(w) == wk[w].pc \in {"sym", "fetch", "prog"}
\* this step is a step of worker w that is at a symbol of its batch
symbol_step(w) == wk[w].pc \in {"sym", "fetch"} /\ wk'[w] # wk[w] /\ wk'[w].pc # wk[w].pc

\* C1: in every run the processed values of successive ProgressUpdated
\* events are non-decreasing, and the processed counter never exceeds total
\* (the number of symbols left by the filter of run()).
C1_ProgressMonotoneAndBounded ==
    /\ \A i, j \in progress_events : i < j => log[i].processed <= log[j].processed
    /\ processed_symbols <= total_symbols

\* C2: in a run that is never stopped, ProgressUpdated with processed = total
\* is emitted exactly once, it is the last ProgressUpdated, Completed is
\* emitted once the monitor has passed the join, exactly once, and only
\* after that ProgressUpdated.
C2_FinalProgressThenOneCompleted ==
    (run_no > 0 /\ run_no \notin stopped /\ total_symbols > 0) =>
        LET full == { i \in progress_events : log[i].processed = log[i].total } IN
        /\ Cardinality(full) <= 1
        /\ Cardinality(completed_events) <= 1
        /\ \A i \in full : \A j \in progress_events : j <= i
        /\ \A k \in completed_events : full # {} /\ \A i \in full : i < k
        /\ mon[run_no].pc \in {"fin", "done"} => completed_events # {}

\* C3: once stop() has returned and the pool is idle (running = False), no
\* worker is processing a batch and no SignalFound or ProgressUpdated event
\* is emitted.
C3_IdleAfterStopIsQuiet ==
    (run_no \in stopped /\ stop_pc = "idle" /\ ~running) =>
        /\ \A w \in Workers : ~processing(w)
        /\ ev.type \notin {"signal", "progress"}

\* C4: stop() on a running pool returns with the pool idle and the queue
\* empty, and once stop() has returned and every worker thread has exited,
\* the monitor of a stopped run is not left blocked in join(): all batches
\* of its queue are accounted for.
C4_StopReturnsIdleAndThreadsExit ==
    [][ /\ (stop_pc # "idle" /\ stop_pc' = "idle") =>
              (~running' /\ queue'[run_no'].items = << >>)
        /\ (stop_pc' = "idle" /\ \A w \in Workers : wk'[w].pc \in {"none", "done"}) =>
              \A r \in stopped' :
                  mon'[r].pc = "join" => queue'[mon'[r].q].unfinished_tasks = 0
      ]_vars

\* C5: after stop() was called on a run, no worker of that run starts
\* processing a batch; a worker that checks the flag after its get() while
\* the flag is set drops the batch (no fetch, no detection, no event); a
\* worker that is at a symbol of its batch goes on to the next symbol or to
\* the count of the batch, whatever the flag is.
C5_NoNewBatchAfterStop ==
    [][ \A w \in Workers :
          /\ (wk[w].pc = "chk" /\ wk'[w].pc = "sym") => w[1] \notin stopped
          /\ (wk[w].pc = "chk" /\ should_stop /\ wk'[w] # wk[w]) =>
                (wk'[w].pc \in {"done", "loop"} /\ ev' = NoEvent /\ ret' = NoReturn)
          /\ symbol_step(w) =>
                (wk'[w].pc \in {"sym", "fetch", "prog"} /\
                 (wk'[w].pc # "prog" => wk'[w].batch = wk[w].batch))
      ]_vars

\* C6: run() on a pool that is already running changes neither the queue,
\* the processed counter, total, the stop flag nor the worker and monitor
\* threads, starts no thread and emits no event.
C6_RunWhileRunningIsNoOp ==
    [][ (running /\ Run) =>
          /\ UNCHANGED <<queue, processed_symbols, total_symbols, should_stop, running,
                         run_no, executor, wk, mon, log, globals>>
          /\ ev' = NoEvent
      ]_vars

\* a second run() found the pool running while a worker was about to count
\* its batch
C6_Witness ==
    /\ running /\ ~should_stop /\ run_no = 1
    /\ wk[<<1, 1>>].pc = "prog"
    /\ ev = NoEvent /\ ret = NoReturn

\* C7: run() on an idle pool whose symbols are all blacklisted (or whose
\* list is empty) emits exactly one Completed, starts no worker and no
\* monitor, calls the data source for nothing, emits no ProgressUpdated or
\* SignalFound and leaves the pool idle, so that a later run() is accepted.
C7_NothingToScanCompletesAtOnce ==
    [][ (~running /\ Run /\ \A i \in 1..Len(symbols) : symbols[i] \in INVALID_SYMBOLS) =>
          /\ ev' = Completed
          /\ log' = <<Completed>>
          /\ UNCHANGED <<wk, mon, queue, executor, run_no, globals>>
          /\ ~running' /\ stop_pc' = "idle"
      ]_vars

\* run() was called with a non-empty list whose symbols are all blacklisted
C7_Witness ==
    /\ ev = Completed /\ log = <<Completed>>
    /\ total_symbols = 0 /\ ~running
    /\ Len(symbols) > 0
    /\ \A i \in 1..Len(symbols) : symbols[i] \in INVALID_SYMBOLS

\* C8: a step of a worker at symbol k of its batch that ends in a failure
\* (the symbol is blacklisted, the fetch raises, too few candles, the
\* analysis raises) emits no signal; every such step, failed or not, moves
\* the worker on: to the fetch of k, to symbol k+1 of the same batch, or
\* after the last symbol to the count of the batch; data the detector
\* accepts gives SignalFound for k; and the step changes no other worker,
\* the queue, the flags or the monitors.
C8_FailureIsConfinedToItsSymbol ==
    [][ \A w \in Workers : symbol_step(w) =>
          LET k == wk[w].idx
              failed == \/ ret'.how \in {"blacklisted", "error", "insufficient"}
                        \/ ret'.data.shape \in {"malformed", "unsupported"}
          IN
          /\ \/ wk[w].pc = "sym" /\ wk'[w].pc = "fetch" /\ wk'[w].idx = k
                /\ wk'[w].batch = wk[w].batch
             \/ k < Len(wk[w].batch) /\ wk'[w].pc = "sym" /\ wk'[w].idx = k + 1
                /\ wk'[w].batch = wk[w].batch
             \/ k = Len(wk[w].batch) /\ wk'[w].pc = "prog" /\ wk'[w].batch = wk[w].batch
          /\ failed => ev' = NoEvent
          /\ (ret'.how \in {"hit", "fetched"} /\ detects(ret'.data)) =>
                ev' = SignalFound(wk[w].batch[k])
          /\ \A v \in Workers \ {w} : wk'[v] = wk[v]
          /\ UNCHANGED <<queue, running, should_stop, mon, processed_symbols>>
      ]_vars

\* the first symbol of a batch failed permanently, and the worker went on to
\* find the signal of the second and is at the third
C8_Witness ==
    /\ ev = SignalFound("B")
    /\ "A" \in INVALID_SYMBOLS
    /\ \E w \in Workers :
         /\ wk[w].pc = "sym" /\ wk[w].idx = 3
         /\ wk[w].batch[1] = "A" /\ wk[w].batch[2] = "B"

\* C9: get_ohlcv_with_cache for a symbol that is blacklisted at the call
\* returns no data at once: the data source is not called, and the cache and
\* the blacklist stay as they are, whether or not the cache holds a fresh
\* entry of the symbol.
C9_BlacklistedFailsFast ==
    [][ \A w \in Workers :
          (wk[w].pc = "sym" /\ wk'[w] # wk[w] /\ cur(w) \in INVALID_SYMBOLS) =>
             /\ wk'[w].pc # "fetch"
             /\ ret'.how = "blacklisted" /\ ret'.data = NoData
             /\ ev' = NoEvent
             /\ UNCHANGED <<OHLCV_CACHE, INVALID_SYMBOLS>>
      ]_vars

\* a call failed fast for a blacklisted symbol of which the cache holds a
\* fresh entry
C9_Witness ==
    /\ ret.how = "blacklisted"
    /\ ret.symbol \in INVALID_SYMBOLS
    /\ cache_key(ret.symbol, timeframe, SCAN_LIMIT) \in DOMAIN OHLCV_CACHE
    /\ now - OHLCV_CACHE[cache_key(ret.symbol, timeframe, SCAN_LIMIT)].cache_time < 300

\* C10: for a symbol that is not blacklisted, get_ohlcv_with_cache returns
\* the cached series without calling the data source if and only if the
\* cache holds an entry of (symbol, timeframe, limit) with
\* now - fetchedAt < 300; an entry of age 300 or more is a miss, the data
\* source is called; and a successful fetch stores the very series it
\* returns, which is what a hit returns.
C10_HitIffYoungerThanTTL ==
    [][ \A w \in Workers :
          LET key == cache_key(cur(w), timeframe, SCAN_LIMIT) IN
          /\ (wk[w].pc = "sym" /\ wk'[w] # wk[w] /\ cur(w) \notin INVALID_SYMBOLS) =>
                IF key \in DOMAIN OHLCV_CACHE /\ now - OHLCV_CACHE[key].cache_time < 300
                THEN /\ wk'[w].pc # "fetch"
                     /\ ret' = Return(w, cur(w), "hit", OHLCV_CACHE[key].data)
                     /\ OHLCV_CACHE' = OHLCV_CACHE
                ELSE /\ wk'[w].pc = "fetch"
                     /\ ret'.how = "none"
          /\ (wk[w].pc = "fetch" /\ wk'[w].pc # "fetch" /\ ret'.how = "fetched"
              /\ wk[w].cache_to_use = "global") =>
                /\ key \in DOMAIN OHLCV_CACHE'
                /\ OHLCV_CACHE'[key] = [cache_time |-> wk[w].current_time, data |-> ret'.data]
      ]_vars

\* a call found an entry of age exactly 300 and is calling the data source
C10_Witness ==
    \E w \in Workers :
        /\ wk[w].pc = "fetch"
        /\ cache_key(cur(w), timeframe, SCAN_LIMIT) \in DOMAIN OHLCV_CACHE
        /\ wk[w].current_time
             - OHLCV_CACHE[cache_key(cur(w), timeframe, SCAN_LIMIT)].cache_time = 300

\* C11: marking a symbol that is not in the blacklist twice adds exactly one
\* element: the symbol is in the blacklist afterwards, and the membership of
\* every other symbol is unchanged (checked for every symbol on every
\* blacklist the program reaches).
C11_MarkInvalidIdempotent ==
    \A x \in SymbolSet : x \notin INVALID_SYMBOLS =>
        LET once == mark_symbol_as_invalid(INVALID_SYMBOLS, x)
            twice == mark_symbol_as_invalid(once, x)
        IN /\ Cardinality(twice) = Cardinality(INVALID_SYMBOLS) + 1
           /\ twice = once
           /\ x \in twice
           /\ \A y \in SymbolSet \ {x} : y \in twice <=> y \in INVALID_SYMBOLS

\* the fetches of two workers for "A" both failed permanently: the worker of
\* the first run marked it before, the worker of the second run just now
C11_Witness ==
    /\ ret.by = <<2, 1>> /\ ret.symbol = "A" /\ ret.how = "error"
    /\ wk[<<1, 1>>].pc = "prog" /\ wk[<<1, 1>>].batch = <<"A">>
    /\ INVALID_SYMBOLS = {"A"}

\* C12: a symbol enters the blacklist only in a step in which a fetch for
\* that symbol failed with a message of a permanent class, such a failure
\* always adds the symbol, and no other step (transient fetch error, too few
\* candles, cache hit, successful fetch, exception of the analysis) adds one.
C12_OnlyPermanentFetchErrorsMark ==
    [][ /\ \A s \in INVALID_SYMBOLS' \ INVALID_SYMBOLS :
              ret'.how = "error" /\ ret'.symbol = s /\ IsPermanentMessage(ret'.error)
        /\ (ret'.how = "error" /\ IsPermanentMessage(ret'.error)) =>
              ret'.symbol \in INVALID_SYMBOLS'
      ]_vars

\* C13: a call of get_ohlcv_with_cache that ends because the data source
\* returned fewer than 10 candles, or raised with a message that contains
\* none of the permanent patterns, leaves the cache and the blacklist as
\* they are, so that a call for the same symbol right after it is neither
\* failed fast nor served from the cache: it calls the data source again.
C13_TransientFailureLeavesNoTrace ==
    [][ ( \/ ret'.how = "insufficient"
          \/ /\ ret'.how = "error"
             /\ \A i \in 1..Len(ret'.error) : ret'.error[i] \notin PERMANENT_PATTERNS ) =>
          /\ UNCHANGED <<OHLCV_CACHE, INVALID_SYMBOLS>>
          /\ ret'.symbol \notin INVALID_SYMBOLS'
          /\ ~cache_fresh(OHLCV_CACHE', cache_key(ret'.symbol, timeframe, SCAN_LIMIT), now')
      ]_vars

\* a call ended in a transient failure and the next symbol of the batch is
\* the same symbol
C13_Witness ==
    /\ ret.how \in {"insufficient", "error"}
    /\ ~IsPermanentMessage(ret.error)
    /\ wk[<<1, 1>>].pc = "sym" /\ wk[<<1, 1>>].idx = 2
    /\ wk[<<1, 1>>].batch[2] = ret.symbol

\* C14: a monitor thread that ends by an exception emits the Error event,
\* and however a monitor thread ends, the pool is idle (running = False)
\* when it has ended, so that a later run() is accepted.
C14_MonitorFailureLeavesIdle ==
    [][ \A r \in Runs :
          (mon[r].pc \in {"join", "fin"} /\ mon'[r].pc = "done") =>
              /\ ~running'
              /\ (mon[r].pc = "join" => ev' = ScanError)
      ]_vars

(* ----------------------- signal detector claims ----------------------- *)
\* position in the series of position i of the search window
in_series(i) == Len(df) - candle_count + i

\* the search window has an upward crossover (ma7 <= ma25 on the row before,
\* ma7 > ma25 on the row itself) at position i and none before it
first_up_cross_at(i) ==
    /\ i \in 1..(candle_count - 1)
    /\ \A k \in 1..i :
           (/\ iloc(df, in_series(k - 1)).ma7 <= iloc(df, in_series(k - 1)).ma25
            /\ iloc(df, in_series(k)).ma7 > iloc(df, in_series(k)).ma25) <=> k = i

\* C15: on a series of at least candle_count rows whose window has its first
\* upward crossover at position i, with three rows after it that all close
\* above ma7 and a second-to-last row that closes above ma7, the long
\* detector returns a signal that carries the timestamp and the close of
\* the crossover row.
C15_LongSucceedsOnWellFormedCrossover ==
    (signal_data.checked /\ Len(df) >= candle_count) =>
        \A i \in 1..(candle_count - 1) :
            (/\ first_up_cross_at(i)
             /\ i + 3 <= candle_count - 1
             /\ \A j \in 1..3 :
                    iloc(df, in_series(i + j)).close > iloc(df, in_series(i + j)).ma7
             /\ iloc(df, -2).close > iloc(df, -2).ma7)
            => /\ signal_data.long.found
               /\ signal_data.long.cross_time = iloc(df, in_series(i)).timestamp
               /\ signal_data.long.cross_price = iloc(df, in_series(i)).close

\* a signal whose crossover is the second position of a window that is
\* shorter than the series
C15_Witness ==
    /\ signal_data.checked
    /\ Len(df) = MaxCandles
    /\ candle_count = MaxCandles - 1
    /\ first_up_cross_at(1)
    /\ signal_data.long.found
    /\ signal_data.long.cross_time = 3

\* row i of the search window closes above its ma7
closes_above(i) == iloc(df, in_series(i)).close > iloc(df, in_series(i)).ma7

\* C16: when one of the three rows that follow the first upward crossover of
\* the window closes on or below its ma7, the long detector returns None,
\* whatever the other rows are.
C16_LongNoneOnFailedConfirmation ==
    (signal_data.checked /\ Len(df) >= candle_count) =>
        \A i \in 1..(candle_count - 1) :
            (/\ first_up_cross_at(i)
             /\ \E j \in 1..3 : i + j <= candle_count - 1 /\ ~closes_above(i + j))
            => ~signal_data.long.found

\* the crossover is at position 1, the row two after it closes on or below
\* ma7 and every other row after the crossover closes above it
C16_Witness ==
    /\ signal_data.checked
    /\ Len(df) = MaxCandles
    /\ candle_count = MaxCandles
    /\ first_up_cross_at(1)
    /\ ~closes_above(3)
    /\ \A k \in 2..(candle_count - 1) : k # 3 => closes_above(k)
    /\ ~signal_data.long.found

\* the series reflected about its ma25 line: every comparison between close,
\* ma7 and ma25 of a row is reversed
reflected(d) ==
    [k \in 1..Len(d) |-> [d[k] EXCEPT !.close = 2 * d[k].ma25 - @,
                                      !.ma7 = 2 * d[k].ma25 - @]]

\* C17: the short detector returns a signal on a series exactly when the long
\* detector returns one on the reflected series, and the two signals name
\* the same crossover row.
C17_ShortMirrorsLong ==
    signal_data.checked =>
        LET mirror == check_long_signal(reflected(df), candle_count)
        IN  /\ signal_data.short.found <=> mirror.found
            /\ signal_data.short.found => signal_data.short.cross_time = mirror.cross_time

\* a short signal whose crossover leaves a row with ma7 on ma25
C17_Witness ==
    /\ signal_data.checked
    /\ signal_data.short.found
    /\ Len(df) > candle_count
    /\ df[signal_data.short.cross_time - 1].ma7 = df[signal_data.short.cross_time - 1].ma25
    /\ check_long_signal(reflected(df), candle_count).found

\* C18: when ma7 > ma25 on every row of the search window the long detector
\* returns None, and when ma7 < ma25 on every row of the window the short
\* detector returns None, wherever the closes lie.
C18_NoSignChangeNoSignal ==
    (signal_data.checked /\ Len(df) >= candle_count) =>
        LET window == 0..(candle_count - 1)
        IN  /\ (\A k \in window : iloc(df, in_series(k)).ma7 > iloc(df, in_series(k)).ma25)
                   => ~signal_data.long.found
            /\ (\A k \in window : iloc(df, in_series(k)).ma7 < iloc(df, in_series(k)).ma25)
                   => ~signal_data.short.found

\* ma7 is above ma25 and every close above ma7 on all rows of the window,
\* which is shorter than the series, and the row before the window has ma7
\* below ma25
C18_Witness ==
    /\ signal_data.checked
    /\ Len(df) = MaxCandles
    /\ candle_count = MaxCandles - 1
    /\ df[1].ma7 < df[1].ma25
    /\ \A k \in 0..(candle_count - 1) :
           /\ iloc(df, in_series(k)).ma7 > iloc(df, in_series(k)).ma25
           /\ closes_above(k)
    /\ ~signal_data.long.found

(* --------------------------- fetches per scan ------------------------- *)
\* exchange.fetch_ohlcv is called for symbol s in this step, by a scanner or
\* by a pre-warming call
fetch_called(s) ==
    \/ \E w \in Workers :
          wk[w].pc = "sym" /\ wk'[w].pc = "fetch" /\ cur(w) = s
    \/ \E r \in Runs : \E k \in 1..Len(executor[r].tasks) :
          /\ executor[r].tasks[k].pc = "queued"
          /\ executor'[r].tasks[k].pc = "fetch"
          /\ executor[r].tasks[k].symbol = s

\* C19: during one scan over distinct symbols, pre-warming calls included,
\* exchange.fetch_ohlcv is called at most once for each symbol: no call is
\* made for a symbol it was already called for in this scan.
C19_AtMostOneFetchPerSymbol ==
    [][\A s \in DOMAIN source : fetch_called(s) => s \notin calls]_vars

(* ------------------------------ error events -------------------------- *)
\* C20: an Error event (scan_error) is emitted only by a step in which the
\* monitor fails; no failure inside a symbol or a batch emits one.
C20_ErrorOnlyFromMonitor ==
    [][ev'.type = "error" =>
          \E r \in Runs : mon[r].pc \in {"join", "fin"} /\ mon'[r].pc = "done"]_vars

(* ------------------------------ liveness ------------------------------ *)
\* Scheduling: every started worker and monitor thread keeps running, a
\* stop() call in progress goes on to its return, and every call of the
\* data source returns or raises (FetchReturns and FetchRaises are steps of
\* Worker).  run() and stop() are called when the caller chooses.
Fairness ==
    /\ \A w \in Workers : WF_vars(Worker(w))
    /\ \A r \in Runs : WF_vars(Monitor(r))
    /\ WF_vars(StopDrain \/ StopAck)

\* the reused pool of Spec under fair scheduling
SpecLive == Spec /\ Fairness

\* C21: a pool that is running is eventually idle again (running = False),
\* by the monitor after the queue has drained or by stop(), for every
\* number of worker threads.
C21_RunningLeadsToIdle == running ~> ~running

\* a scan with the largest number of workers has drained and its monitor
\* has set the pool idle after Completed, without any stop()
C21_Witness ==
    /\ threads = MaxThreads
    /\ run_no = 1
    /\ mon[1].pc = "done"
    /\ stopped = {}
    /\ ~running
    /\ Len(log) > 0 /\ log[Len(log)] = Completed

(* ------------------------------ batching ------------------------------ *)
\* the batches of a queue, one after the other
RECURSIVE concatenation(_)
concatenation(batches) ==
    IF Len(batches) = 0 THEN << >> ELSE Head(batches) \o concatenation(Tail(batches))

\* the list without the symbols of a blacklist, in the order of the list
RECURSIVE without(_, _)
without(list, invalid) ==
    IF Len(list) = 0 THEN << >>
    ELSE (IF Head(list) \in invalid THEN << >> ELSE <<Head(list)>>)
         \o without(Tail(list), invalid)

\* C22: a run() that starts a scan enqueues contiguous batches in input
\* order: their concatenation is the symbol list without the symbols on the
\* blacklist at that moment, no batch is empty, every batch but the last
\* has batch_size symbols, and total_symbols is the sum of the batch sizes.
C22_BatchesPartitionTheFilteredList ==
    [][run_no' # run_no =>
          LET batches == queue'[run_no'].items
          IN  /\ concatenation(batches) = without(symbols, INVALID_SYMBOLS)
              /\ \A i \in 1..Len(batches) :
                     /\ Len(batches[i]) > 0
                     /\ i < Len(batches) => Len(batches[i]) = batch_size
              /\ total_symbols' = Len(concatenation(batches))]_vars

\* eight symbols of which "B" and "C" are blacklisted: a batch of five and a
\* batch of one
C22_Witness ==
    /\ symbols = SubSeq(SymbolNames, 1, MaxBatchSymbols)
    /\ INVALID_SYMBOLS = {"B", "C"}
    /\ run_no = 1
    /\ queue[1].items = << <<"A", "D", "E", "F", "G">>, <<"H">> >>
    /\ total_symbols = MaxBatchSymbols - 2

(* --------------------------- failed batches --------------------------- *)
\* C23: when an exception escapes the handling of a batch, the batch counts
\* Len(batch) toward processed_symbols (once: nothing is added for a batch
\* that was already counted), and the next step of the worker acknowledges
\* the batch and takes it back to the head of its loop.
C23_FailedBatchCountsAndWorkerGoesOn ==
    [][\A w \in Workers :
          /\ (wk[w].pc # "hack" /\ wk'[w].pc = "hack") =>
                 processed_symbols' =
                     processed_symbols + (IF wk[w].pc = "ack" THEN 0 ELSE Len(wk[w].batch))
          /\ (wk[w].pc = "hack" /\ wk'[w] # wk[w]) => wk'[w].pc = "loop"]_vars

\* the search window has a downward crossover (ma7 >= ma25 on the row
\* before, ma7 < ma25 on the row itself) at position i and none before it
first_down_cross_at(i) ==
    /\ i \in 1..(candle_count - 1)
    /\ \A k \in 1..i :
           (/\ iloc(df, in_series(k - 1)).ma7 >= iloc(df, in_series(k - 1)).ma25
            /\ iloc(df, in_series(k)).ma7 < iloc(df, in_series(k)).ma25) <=> k = i

\* the rows at positions p+1..p+3 of the series exist and all close above
\* (long) or below (short) their ma7
confirmed_in_series(p, long) ==
    /\ p + 3 <= Len(df) - 1
    /\ \A j \in 1..3 :
           IF long THEN iloc(df, p + j).close > iloc(df, p + j).ma7
                   ELSE iloc(df, p + j).close < iloc(df, p + j).ma7

\* C24: when fewer than three rows follow the first crossover inside the
\* window, the confirmation rows are those of the whole series at position
\* Len(df) - candle_count + i, and the detector returns None when the
\* series has fewer than three rows after that position.
C24_ShortWindowFallsBackToSeries ==
    (signal_data.checked /\ Len(df) >= candle_count) =>
        \A i \in 1..(candle_count - 1) :
            i + 3 > candle_count - 1 =>
                /\ (first_up_cross_at(i) /\ signal_data.long.found) =>
                       confirmed_in_series(in_series(i), TRUE)
                /\ (first_down_cross_at(i) /\ signal_data.short.found) =>
                       confirmed_in_series(in_series(i), FALSE)
                /\ (first_up_cross_at(i) /\ in_series(i) + 3 > Len(df) - 1) =>
                       ~signal_data.long.found
                /\ (first_down_cross_at(i) /\ in_series(i) + 3 > Len(df) - 1) =>
                       ~signal_data.short.found

\* the first upward crossover has two rows after it in a window shorter
\* than the series, all rows after it close above ma7, and there is no
\* signal
C24_Witness ==
    /\ signal_data.checked
    /\ Len(df) = MaxCandles
    /\ candle_count = MaxCandles - 1
    /\ first_up_cross_at(candle_count - 3)
    /\ closes_above(candle_count - 2)
    /\ closes_above(candle_count - 1)
    /\ ~signal_data.long.found

\* C25: the detector returns None whenever the second-to-last row of the
\* series closes on or below its ma7 (long), on or above it (short),
\* whatever the crossover and the confirmation rows are.
C25_NoneWhenSecondToLastFails ==
    (signal_data.checked /\ Len(df) >= 2) =>
        /\ iloc(df, -2).close <= iloc(df, -2).ma7 => ~signal_data.long.found
        /\ iloc(df, -2).close >= iloc(df, -2).ma7 => ~signal_data.short.found

\* the crossover is at position 1 of a window of MaxCandles + 1 rows, the
\* three rows after it close above ma7, the second-to-last row closes on
\* ma7, and there is no signal
C25_Witness ==
    /\ signal_data.checked
    /\ Len(df) = MaxCandles + 1
    /\ candle_count = MaxCandles + 1
    /\ first_up_cross_at(1)
    /\ closes_above(2) /\ closes_above(3) /\ closes_above(4)
    /\ iloc(df, -2).close = iloc(df, -2).ma7
    /\ ~signal_data.long.found

\* the dict d is built from the last row of the series and from the row at
\* position p of the series
built_from(d, p) ==
    /\ d.timestamp = iloc(df, -1).timestamp
    /\ d.close = iloc(df, -1).close
    /\ d.ma7 = iloc(df, -1).ma7
    /\ d.ma25 = iloc(df, -1).ma25
    /\ d.ma99 = iloc(df, -1).ma99
    /\ d.cross_time = iloc(df, p).timestamp
    /\ d.cross_price = iloc(df, p).close

\* C26: a signal carries timestamp, close, ma7, ma25 and ma99 of the last
\* row of the series and the close and timestamp of the crossover row; the
\* crossover row is the first crossover of the window, inside the last
\* candle_count rows and before the last three rows of the series.
C26_SignalFields ==
    signal_data.checked =>
        /\ signal_data.long.found =>
               \E i \in 1..(candle_count - 1) :
                   /\ first_up_cross_at(i)
                   /\ in_series(i) < Len(df) - 3
                   /\ built_from(signal_data.long, in_series(i))
        /\ signal_data.short.found =>
               \E i \in 1..(candle_count - 1) :
                   /\ first_down_cross_at(i)
                   /\ in_series(i) < Len(df) - 3
                   /\ built_from(signal_data.short, in_series(i))

\* a short signal whose crossover row is the last one that may be: the
\* fourth row from the end of a window shorter than the series
C26_Witness ==
    /\ signal_data.checked
    /\ signal_data.short.found
    /\ Len(df) = MaxCandles
    /\ candle_count = MaxCandles - 1
    /\ first_down_cross_at(candle_count - 4)
    /\ signal_data.short.cross_time = iloc(df, -4).timestamp

\* C27: equalities.  Long: a row with ma7 > ma25 that follows a row with
\* ma7 = ma25 is a crossover; the crossover row of a signal has ma7 > ma25,
\* never ma7 = ma25; the three rows after the crossover and the
\* second-to-last row of a signal close above ma7, never on it.  Short: the
\* same with the comparisons reversed.
C27_EqualityHandling ==
    (signal_data.checked /\ Len(df) >= candle_count) =>
        /\ \A i \in 1..(candle_count - 4) :
               (/\ first_up_cross_at(i)
                /\ iloc(df, in_series(i - 1)).ma7 = iloc(df, in_series(i - 1)).ma25
                /\ \A j \in 1..3 : closes_above(i + j)
                /\ iloc(df, -2).close > iloc(df, -2).ma7)
               => /\ signal_data.long.found
                  /\ signal_data.long.cross_time = iloc(df, in_series(i)).timestamp
        /\ signal_data.long.found =>
               LET p == signal_data.long.cross_time - 1
               IN  /\ iloc(df, p).ma7 > iloc(df, p).ma25
                   /\ \A j \in 1..3 : iloc(df, p + j).close > iloc(df, p + j).ma7
                   /\ iloc(df, -2).close > iloc(df, -2).ma7
        /\ signal_data.short.found =>
               LET p == signal_data.short.cross_time - 1
               IN  /\ iloc(df, p).ma7 < iloc(df, p).ma25
                   /\ \A j \in 1..3 : iloc(df, p + j).close < iloc(df, p + j).ma7
                   /\ iloc(df, -2).close < iloc(df, -2).ma7

\* a long signal whose crossover follows a row with ma7 = ma25, in a window
\* that starts with that row
C27_Witness ==
    /\ signal_data.checked
    /\ signal_data.long.found
    /\ Len(df) = MaxCandles
    /\ candle_count = MaxCandles - 1
    /\ first_up_cross_at(1)
    /\ iloc(df, in_series(0)).ma7 = iloc(df, in_series(0)).ma25

(* ------------- scans, stop() and the administrative operations -------- *)
\* a pool over a short list in which a symbol may occur twice, one scanner
\* per scan
InitAdmin ==
    /\ NoDetector
    /\ InitPoolObject(ShortLists, 1)
    /\ source = FixedSource
    /\ is_long = TRUE

\* the pool run again and stopped, while the cache and the blacklist are
\* cleared and the clock advances
NextAdmin ==
    \/ Next
    \/ clear_ohlcv_cache
    \/ clear_invalid_symbols
    \/ Tick

\* short symbol lists, one answer of the data source per symbol, pool reused
\* and stopped, administrative operations, clock
SpecAdmin == InitAdmin /\ [][NextAdmin]_vars

(* ------------------------ the blacklist only grows -------------------- *)
\* the symbols of the batches a queue holds
enqueued(q) ==
    UNION { { q.items[i][j] : j \in 1..Len(q.items[i]) } : i \in 1..Len(q.items) }

\* C28: a symbol on the blacklist stays on it in every step that is not
\* clear_invalid_symbols (a scan, stop(), clear_ohlcv_cache, the clock
\* passing the age at which cache entries expire); while it is on it, no
\* step calls the data source for it, a scanner that comes to it gets no
\* data for it, and a run() that starts a scan does not enqueue it.
C28_BlacklistOnlyGrows ==
    [][\A s \in INVALID_SYMBOLS :
          /\ ret'.how # "clear_invalid_symbols" => s \in INVALID_SYMBOLS'
          /\ ~fetch_called(s)
          /\ \A w \in Workers :
                (wk[w].pc = "sym" /\ cur(w) = s /\ wk'[w] # wk[w]) =>
                    /\ ret' = Return(w, s, "blacklisted", NoData)
                    /\ OHLCV_CACHE' = OHLCV_CACHE
          /\ run_no' # run_no => s \notin enqueued(queue'[run_no'])]_vars

\* the second scan of <<"A", "B">> after "A" was blacklisted, the pool was
\* stopped and cache entries have had time to expire: "A" is still on the
\* blacklist and the scan is over "B" alone
C28_Witness ==
    /\ symbols = <<"A", "B">>
    /\ run_no = 2
    /\ 1 \in stopped
    /\ now >= CACHE_EXPIRY
    /\ "A" \in INVALID_SYMBOLS
    /\ total_symbols = 1
    /\ ret = Return(<<2, 1>>, "B", "fetched", [n |-> 500, shape |-> "long"])

(* ------------------- clearing the cache and the blacklist ------------- *)
\* C29: clear_ohlcv_cache returns the number of cache entries held before
\* the call, leaves the cache empty and the blacklist as it was;
\* clear_invalid_symbols returns the number of blacklisted symbols held
\* before the call, leaves no symbol blacklisted and the cache as it was;
\* no lookup in an empty cache is a hit, and the cache gains or changes an
\* entry only in a step in which a fetch returned its rows.
C29_ClearOperations ==
    [][/\ ret'.how = "clear_ohlcv_cache" =>
             /\ ret'.count = Cardinality(DOMAIN OHLCV_CACHE)
             /\ OHLCV_CACHE' = EmptyCache
             /\ INVALID_SYMBOLS' = INVALID_SYMBOLS
       /\ ret'.how = "clear_invalid_symbols" =>
             /\ ret'.count = Cardinality(INVALID_SYMBOLS)
             /\ \A s \in SymbolSet : s \notin INVALID_SYMBOLS'
             /\ OHLCV_CACHE' = OHLCV_CACHE
       /\ OHLCV_CACHE = EmptyCache => ret'.how # "hit"
       /\ (\E k \in DOMAIN OHLCV_CACHE' :
              k \notin DOMAIN OHLCV_CACHE \/ OHLCV_CACHE'[k] # OHLCV_CACHE[k]) =>
             ret'.how = "fetched"]_vars

\* clear_ohlcv_cache has just returned 1 for a cache that held the rows of
\* "B", while "A" was and is blacklisted
C29_Witness ==
    /\ ret = Cleared("clear_ohlcv_cache", 1)
    /\ OHLCV_CACHE = EmptyCache
    /\ INVALID_SYMBOLS = {"A"}
    /\ symbols = <<"A", "B">>

(* --------------------- concurrent calls and the cache ----------------- *)
\* a data source that answers the calls for "A" with one of two series, the
\* others with one series or a timeout
TwoSeries ==
    [s \in SymbolSet |->
        [rows |-> IF s = "A"
                  THEN {[n |-> SCAN_LIMIT, shape |-> "long"], [n |-> SCAN_LIMIT, shape |-> "short"]}
                  ELSE {[n |-> SCAN_LIMIT, shape |-> "short"]},
         errors |-> IF s = "A" THEN {} ELSE {<<"Network timeout">>}]]

InitRace ==
    /\ NoDetector
    /\ InitPoolObject(ShortLists, 1)
    /\ source = TwoSeries
    /\ is_long = TRUE

\* scans whose scanners outlive a stop() and run beside those of the next
\* scan, while the cache is cleared and the clock advances
NextRace ==
    \/ Next
    \/ clear_ohlcv_cache
    \/ Tick

\* short symbol lists, one scanner per scan, pool reused and stopped, the
\* cache cleared, clock
SpecRace == InitRace /\ [][NextRace]_vars

\* the step is the return of a fetch by scanner w that wrote its rows
wrote(w, key) ==
    /\ wk[w].pc = "fetch"
    /\ wk[w].cache_to_use = "global"
    /\ key = cache_key(cur(w), timeframe, SCAN_LIMIT)
    /\ ret' = Return(w, cur(w), "fetched", ret'.data)
    /\ OHLCV_CACHE'[key] = [cache_time |-> wk[w].current_time, data |-> ret'.data]

\* C30: whatever the interleaving of the scanners' calls, of
\* clear_ohlcv_cache and of the clock, a step leaves the cache empty, or
\* leaves an entry as it was, or puts under a key the time and the rows of
\* the one fetch of that key that returns in the step; and a hit returns
\* the rows of the entry under the key of the symbol asked for.
C30_EntriesAreWholePairs ==
    [][/\ \A key \in DOMAIN OHLCV_CACHE' :
             \/ key \in DOMAIN OHLCV_CACHE /\ OHLCV_CACHE'[key] = OHLCV_CACHE[key]
             \/ \E w \in Workers : wrote(w, key)
       /\ ret'.how = "hit" =>
             LET key == cache_key(ret'.symbol, timeframe, SCAN_LIMIT)
             IN /\ key \in DOMAIN OHLCV_CACHE
                /\ ret'.data = OHLCV_CACHE[key].data]_vars

\* a scanner of the second scan gets a hit on an entry written after the
\* cache was cleared, while the scanner of the first scan is still inside a
\* fetch that started before the clearing
C30_Witness ==
    /\ ret.how = "hit"
    /\ ret.by = <<2, 1>>
    /\ wk[<<1, 1>>].pc = "fetch"
    /\ wk[<<1, 1>>].cache_to_use = "old"

(* ------------------- the scan handlers of the window ------------------ *)
Max(a, b) == IF a > b THEN a ELSE b

\* a window that has constructed no pool yet: the candle count input holds
\* what the user has set, a scanner that is given no candle_count takes the
\* default of ScannerThread.__init__
InitEntry ==
    /\ OHLCV_CACHE = EmptyCache
    /\ INVALID_SYMBOLS = {}
    /\ now = 0
    /\ source = FixedSource
    /\ symbols = << >>
    /\ threads = 0
    /\ is_long = TRUE
    /\ timeframe \in Timeframes
    /\ candle_count_input \in INPUT_MIN..INPUT_MAX
    /\ running = FALSE
    /\ should_stop = FALSE
    /\ total_symbols = 0
    /\ processed_symbols = 0
    /\ run_no = 0
    /\ queue = [r \in Runs |-> EmptyQueue]
    /\ executor = [r \in Runs |-> NoExecutor]
    /\ calls = NoCalls
    /\ wk = [w \in Workers |-> NoWorker]
    /\ mon = [r \in Runs |-> NoMonitor]
    /\ stop_pc = "idle"
    /\ ev = NoEvent
    /\ ret = NoReturn
    /\ log = << >>
    /\ stopped = {}
    /\ NoDetector

\* get_filtered_symbols(window) with n symbols selected
filtered_symbols(n) == [i \in 1..n |-> "S" \o ToString(i)]

\* the lengths of the lists the handlers are tried with: around every
\* multiple of SYMBOLS_PER_THREAD
ListLengths ==
    { k * SYMBOLS_PER_THREAD + d : k \in 0..MaxFifties, d \in {0, 1, SYMBOLS_PER_THREAD - 1} }
        \ {0}

\* thread_count = min(20, max(8, len(symbols) // 50))
thread_count(n) == Min(UI_MAX_THREADS, Max(UI_MIN_THREADS, n \div SYMBOLS_PER_THREAD))

\* min(multiprocessing.cpu_count() * 2, 16)
default_threads(list, cpus) == Min(cpus * THREADS_PER_CPU, POOL_MAX_THREADS)

\* ScannerPool(exchange, symbols, is_long=..., timeframe=..., window=...,
\* threads=...): the constructor takes no candle count, and `given` = 0
\* stands for threads=None.  The handler's run() of the new pool is the
\* action Run.
ScannerPool(list, long, given) ==
    /\ threads = 0
    /\ symbols' = list
    /\ is_long' = long
    /\ \E cpus \in 1..MaxCpus :
          threads' = IF given # 0 THEN given ELSE default_threads(list, cpus)
    /\ total_symbols' = Len(list)
    /\ processed_symbols' = 0
    /\ running' = FALSE
    /\ should_stop' = FALSE
    /\ ev' = NoEvent /\ ret' = NoReturn
    /\ UNCHANGED <<globals, now, source, timeframe, candle_count_input, detector, calls,
                   objs, wk, mon, stop_pc, log, stopped>>

\* scan_long_signals(window): reads the candle count input and computes the
\* thread count, then constructs the pool
scan_long_signals ==
    \E n \in ListLengths : ScannerPool(filtered_symbols(n), TRUE, thread_count(n))

\* scan_short_signals(window)
scan_short_signals ==
    \E n \in ListLengths : ScannerPool(filtered_symbols(n), FALSE, thread_count(n))

\* perform_auto_scan(window): the long scan of the automatic mode
perform_auto_scan ==
    \E n \in ListLengths : ScannerPool(filtered_symbols(n), TRUE, 0)

\* long_scan_completed_in_auto_mode(window): the short scan of the
\* automatic mode
long_scan_completed_in_auto_mode ==
    \E n \in ListLengths : ScannerPool(filtered_symbols(n), FALSE, 0)

NextEntry ==
    \/ scan_long_signals
    \/ scan_short_signals
    \/ perform_auto_scan
    \/ long_scan_completed_in_auto_mode

\* one pool constructed by one of the scan handlers of the window
SpecEntry == InitEntry /\ [][NextEntry]_vars

(* --------------------- the caller's candle count ---------------------- *)
\* C31: the scanners of a pool that a scan handler constructed call the
\* detectors with the candle count the caller has set in the window.
C31_WindowIsCallersCandleCount ==
    threads # 0 => candle_count = candle_count_input

(* --------------------------- worker count ----------------------------- *)
\* C32: a pool that a scan handler constructed starts
\* min(max(8, len(symbols) div 50), 20) workers, a number from 8 to 20,
\* whichever handler it was.
C32_DefaultWorkerCount ==
    threads # 0 =>
        /\ threads = Min(Max(8, Len(symbols) \div 50), 20)
        /\ threads \in 8..20

(* ---------------- every batch counted and acknowledged once ----------- *)
\* the workers whose position is one of pcs, and the symbols of the batches
\* they hold
workers_at(pcs) == { w \in Workers : wk[w].pc \in pcs }
RECURSIVE symbols_held(_)
symbols_held(ws) ==
    IF ws = {} THEN 0
    ELSE LET w == CHOOSE x \in ws : TRUE
         IN Len(wk[w].batch) + symbols_held(ws \ {w})

\* C33: in the first scan of a pool, stopped or not, the batches not yet
\* acknowledged are those still queued, those a worker holds, and the one
\* stop() has just discarded (each batch is taken once and acknowledged
\* once, never more often than batches were enqueued); the symbols counted
\* as processed, those still queued and those of the batches held and not
\* yet counted never exceed the total (no batch is counted twice); and when
\* a scan that was not stopped has no batch left, every symbol was counted.
C33_EachBatchCountedAndAckedOnce ==
    run_no = 1 =>
        LET q == queue[1]
            held == workers_at({"chk", "sym", "fetch", "prog", "ack", "hack"})
            uncounted == workers_at({"chk", "sym", "fetch", "prog"})
        IN /\ q.unfinished_tasks =
                 Len(q.items) + Cardinality(held) + (IF stop_pc = "ack" THEN 1 ELSE 0)
           /\ processed_symbols + Len(concatenation(q.items)) + symbols_held(uncounted)
                 <= total_symbols
           /\ (stopped = {} /\ held = {} /\ Len(q.items) = 0 /\ running) =>
                 processed_symbols = total_symbols

(* --------------------------- order of events -------------------------- *)
\* C34: a SignalFound for a symbol is emitted by the worker that holds the
\* symbol's batch while it is still scanning the batch, so before the
\* ProgressUpdated that counts the batch; and once Completed was emitted
\* for a run, no SignalFound and no ProgressUpdated is emitted in it.
C34_SignalThenProgressThenCompleted ==
    [][/\ ev'.type = "signal" =>
             \E w \in Workers :
                 /\ wk[w].pc \in {"sym", "fetch"}
                 /\ cur(w) = ev'.symbol
                 /\ wk'[w] # wk[w]
                 /\ wk'[w].pc \in {"sym", "prog"}
       /\ (ev'.type \in {"signal", "progress"} /\ log' # << >>) =>
             completed_events = {}]_vars

(* ----------------------- no Completed after stop ---------------------- *)
\* C35: in a pool that is run once, a stop() that finds a batch of the run
\* queued or in a worker's hands comes before any Completed, and after a
\* stop() no Completed is emitted for the run.
C35_NoCompletedForStoppedRun ==
    [][/\ (stopped' # stopped /\ queue[run_no].unfinished_tasks > 0) =>
             completed_events = {}
       /\ run_no \in stopped => (ev'.type # "completed" /\ completed_events' = completed_events)]_vars

\* a scan of two batches stopped after its first batch: every thread has
\* ended, the monitor has passed the join, and no Completed was emitted
C35_Witness ==
    /\ 1 \in stopped
    /\ stop_pc = "idle"
    /\ total_symbols = MaxPoolSymbols
    /\ processed_symbols = batch_size
    /\ \A w \in Workers : wk[w].pc \in {"none", "done"}
    /\ mon[1].pc = "done"
    /\ completed_events = {}

(* ----------------------- the pool run again --------------------------- *)
\* C36: in the second scan of a pool, started after stop() returned and not
\* stopped itself, while a worker of the stopped scan still holds the batch
\* it was in: the processed counter never exceeds the total of the scan,
\* Completed is emitted only when every symbol of the scan was counted and
\* no worker of the scan holds a batch, and the pool stays Running while
\* the monitor of the scan waits for its queue.
C36_ReusableAfterStop ==
    (/\ run_no = 2 /\ 1 \in stopped /\ 2 \notin stopped
     /\ \E w \in Workers : w[1] = 1 /\ wk[w].pc \in {"sym", "fetch", "prog", "ack"}) =>
        /\ processed_symbols <= total_symbols
        /\ completed_events # {} =>
               /\ processed_symbols = total_symbols
               /\ \A w \in Workers : w[1] = 2 => ~processing(w)
        /\ mon[2].pc = "join" => running

(* ------------------------- short search windows ----------------------- *)
\* the detectors called with windows of one row and more, on every series
\* of fewer than MaxCandles rows
InitShortWindow ==
    /\ InitPoolObject({<< >>}, 1)
    /\ source = FixedSource
    /\ is_long = TRUE
    /\ \E n \in 0..(MaxCandles - 1) : \E f \in [1..n -> Rows] : df = stamped(f)
    /\ candle_count \in 1..(MaxCandles - 1)
    /\ signal_data = Unchecked

SpecShortWindow == InitShortWindow /\ [][NextDetect]_vars

\* C37: when the first crossover of the window has fewer than three rows
\* after it in the window (i + 3 >= candle_count), the detector returns
\* None, whatever the rows of the series are; so every call with
\* candle_count <= 4 returns None.
C37_NoSignalFromTheExtension ==
    signal_data.checked =>
        /\ Len(df) >= candle_count =>
               \A i \in 1..(candle_count - 1) :
                   i + 3 >= candle_count =>
                       /\ first_up_cross_at(i) => ~signal_data.long.found
                       /\ first_down_cross_at(i) => ~signal_data.short.found
        /\ candle_count <= 4 => (~signal_data.long.found /\ ~signal_data.short.found)

\* a window of four rows in a series of five: the first upward crossover
\* is at position 1 of the window, both rows after it and the row before
\* the last close above ma7, and there is no long signal
C37_Witness ==
    /\ signal_data.checked
    /\ Len(df) = 5
    /\ candle_count = 4
    /\ first_up_cross_at(1)
    /\ closes_above(2)
    /\ closes_above(3)
    /\ ~signal_data.long.found

(* ------------------------- only the first crossover ------------------- *)
\* row i of the search window closes below its ma7
closes_below(i) == iloc(df, in_series(i)).close < iloc(df, in_series(i)).ma7

\* C38: the crossover of a signal is the first crossover of the window, and
\* when a row of the three after the first crossover, or the second-to-last
\* row, does not close above (short: below) ma7, there is no signal,
\* whatever crossovers follow in the window.
C38_OnlyTheFirstCrossover ==
    (signal_data.checked /\ Len(df) >= candle_count) =>
        \A i \in 1..(candle_count - 4) :
            /\ first_up_cross_at(i) =>
                  /\ signal_data.long.found =>
                         signal_data.long.cross_time = iloc(df, in_series(i)).timestamp
                  /\ (\E j \in {i + 1, i + 2, i + 3, candle_count - 2} : ~closes_above(j)) =>
                         ~signal_data.long.found
            /\ first_down_cross_at(i) =>
                  /\ signal_data.short.found =>
                         signal_data.short.cross_time = iloc(df, in_series(i)).timestamp
                  /\ (\E j \in {i + 1, i + 2, i + 3, candle_count - 2} : ~closes_below(j)) =>
                         ~signal_data.short.found

\* a window of seven rows: the first upward crossover, at position 1, is
\* followed by a row that closes on or below ma7; a second upward crossover
\* at position 3 has three rows after it that close above ma7, one of them
\* the second-to-last row; there is no long signal
C38_Witness ==
    /\ signal_data.checked
    /\ Len(df) = MaxCandles + 1
    /\ candle_count = MaxCandles + 1
    /\ first_up_cross_at(1)
    /\ ~closes_above(2)
    /\ crossed_up(iloc(df, in_series(2)), iloc(df, in_series(3)))
    /\ \A j \in 4..6 : closes_above(j)
    /\ ~signal_data.long.found

(* --------------------------- expired entries -------------------------- *)
\* C39: a hit returns an entry younger than CACHE_EXPIRY; and a call that
\* found the entry of its key expired and whose fetch raises or returns
\* fewer than MIN_CANDLES candles returns no data and leaves the cache,
\* the expired entry included, as it was.
C39_ExpiredEntryIsNeverReturned ==
    [][/\ ret'.how = "hit" =>
             now - OHLCV_CACHE[cache_key(ret'.symbol, timeframe, SCAN_LIMIT)].cache_time
                 < CACHE_EXPIRY
       /\ \A w \in Workers :
             LET key == cache_key(cur(w), timeframe, SCAN_LIMIT) IN
             (/\ wk[w].pc = "fetch" /\ wk'[w].pc # "fetch"
              /\ key \in DOMAIN OHLCV_CACHE
              /\ wk[w].current_time - OHLCV_CACHE[key].cache_time >= CACHE_EXPIRY
              /\ ret'.how # "fetched") =>
                 /\ ret'.how \in {"error", "insufficient"}
                 /\ ret'.data = NoData
                 /\ OHLCV_CACHE' = OHLCV_CACHE]_vars

\* the refresh of an expired entry has just failed, and the entry is still
\* in the cache
C39_Witness ==
    /\ ret.how \in {"error", "insufficient"}
    /\ cache_key(ret.symbol, timeframe, SCAN_LIMIT) \in DOMAIN OHLCV_CACHE
    /\ now - OHLCV_CACHE[cache_key(ret.symbol, timeframe, SCAN_LIMIT)].cache_time >= CACHE_EXPIRY

(* ------------------------ hits keep the entry ------------------------- *)
\* C40: a hit leaves the cache as it was; the time of an entry changes only
\* when a fetch of its symbol returns, and is then the time read at the
\* start of that call (a call whose cache was replaced by clear_ohlcv_cache
\* meanwhile writes to the replaced cache); and a call that finds an entry whose time lies
\* CACHE_EXPIRY or more in the past goes to the source.
C40_HitDoesNotRefresh ==
    [][/\ ret'.how = "hit" => OHLCV_CACHE' = OHLCV_CACHE
       /\ \A key \in DOMAIN OHLCV_CACHE \cap DOMAIN OHLCV_CACHE' :
             OHLCV_CACHE'[key].cache_time # OHLCV_CACHE[key].cache_time =>
                 /\ ret'.how = "fetched"
                 /\ key = cache_key(ret'.symbol, timeframe, SCAN_LIMIT)
       /\ \A w \in Workers :
             LET key == cache_key(cur(w), timeframe, SCAN_LIMIT) IN
             /\ (wk[w].pc = "fetch" /\ ret'.how = "fetched" /\ ret'.by = w
                 /\ wk'[w].pc # "fetch" /\ wk[w].cache_to_use = "global") =>
                    OHLCV_CACHE'[key].cache_time = wk[w].current_time
             /\ (/\ wk[w].pc = "sym" /\ wk'[w] # wk[w]
                 /\ ~is_symbol_invalid(cur(w))
                 /\ key \in DOMAIN OHLCV_CACHE
                 /\ now - OHLCV_CACHE[key].cache_time >= CACHE_EXPIRY) =>
                    /\ wk'[w].pc = "fetch"
                    /\ ret'.how # "hit"]_vars

\* a hit on an entry that is half of CACHE_EXPIRY old and keeps its time
C40_Witness ==
    /\ ret.how = "hit"
    /\ cache_key(ret.symbol, timeframe, SCAN_LIMIT) \in DOMAIN OHLCV_CACHE
    /\ now - OHLCV_CACHE[cache_key(ret.symbol, timeframe, SCAN_LIMIT)].cache_time
           = CACHE_EXPIRY \div 2
    /\ ret.data = OHLCV_CACHE[cache_key(ret.symbol, timeframe, SCAN_LIMIT)].data

====
